---- MODULE Spec2Model ----
(***************************************************************************)
(* Request gate of the FPL prediction API: API-key authentication,         *)
(* hourly rate limiting and usage logging (src/lib/middleware/api-auth.ts) *)
(* on top of the SQLite persistence layer (src/lib/database/database.ts).  *)
(*                                                                         *)
(* Time is wall-clock time in minutes since 2025-01-01 00:00 UTC.  Text    *)
(* that the code compares character by character (timestamps) is a         *)
(* sequence of character codes; text that is only tested for equality or   *)
(* prefix (credentials) is a sequence of one-character strings.  An        *)
(* optional value is a sequence of length 0 (absent) or 1 (present).       *)
(***************************************************************************)
EXTENDS Integers, Sequences, FiniteSets, TLC

\* ------------------------------------------------------------------ bounds
\* number of requests that may be in flight at the same time
NumSlots == 1
\* number of requests that arrive in one behaviour
MaxArrivals == 2
\* the wall clock when the system starts: 2025-01-01 23:00 UTC
StartClock == 1380
\* the wall clock advances in steps of this many minutes
TickMin == 30
\* the wall clock stops advancing here: 2025-01-02 00:30 UTC
MaxClock == 1470
\* number of times the sync orchestrator calls fetchAllData in one behaviour
MaxSyncs == 2
MaxTrainingRuns == 1
MaxPredictionRows == 1

\* ------------------------------------------------------- program constants
\* checkRateLimit looks back 60 * 60 * 1000 ms = 60 minutes
WindowMin == 60
MinutesPerDay == 24 * 60
\* RealFPLDataFetcher: private requestDelay = 1000 (ms), private maxRetries = 3
requestDelay == 1000
maxRetries == 3

None == <<>>
Some(x) == <<x>>

Min(a, b) == IF a <= b THEN a ELSE b

\* ------------------------------------------------------------- timestamps
Pad2(n) == <<48 + (n \div 10), 48 + (n % 10)>>

\* "2025-01-DD"
DatePart(t) == <<50, 48, 50, 53, 45, 48, 49, 45>> \o Pad2(1 + (t \div MinutesPerDay))

\* "HH:MM:00"
TimePart(t) == Pad2((t % MinutesPerDay) \div 60) \o <<58>> \o Pad2(t % 60) \o <<58, 48, 48>>

\* SQLite CURRENT_TIMESTAMP and datetime('now'): "YYYY-MM-DD HH:MM:SS" (UTC)
CURRENT_TIMESTAMP(t) == DatePart(t) \o <<32>> \o TimePart(t)

\* Date.prototype.toISOString: "YYYY-MM-DDTHH:MM:SS.sssZ"
toISOString(t) == DatePart(t) \o <<84>> \o TimePart(t) \o <<46, 48, 48, 48, 90>>

\* SQLite's ">" on two TEXT values (BINARY collation, memcmp): the first
\* differing character decides, a proper prefix is the smaller one
TextGreater(a, b) ==
    LET n == Min(Len(a), Len(b))
        diff == {i \in 1..n : a[i] # b[i]}
    IN  IF diff = {}
        THEN Len(a) > Len(b)
        ELSE LET i == CHOOSE j \in diff : \A k \in diff : j <= k
             IN  a[i] > b[i]

\* ------------------------------------------------------------ credentials
fpl_ == <<"f", "p", "l", "_">>
Bearer_ == <<"B", "e", "a", "r", "e", "r", " ">>

startsWith(s, prefix) ==
    /\ Len(s) >= Len(prefix)
    /\ SubSeq(s, 1, Len(prefix)) = prefix

\* String.prototype.replace(pattern, replacement) with a string pattern:
\* the first occurrence only
replace(s, pat, rep) ==
    LET occ == {i \in 1..(Len(s) - Len(pat) + 1) : SubSeq(s, i, i + Len(pat) - 1) = pat}
    IN  IF occ = {}
        THEN s
        ELSE LET i == CHOOSE j \in occ : \A k \in occ : j <= k
             IN  SubSeq(s, 1, i - 1) \o rep \o SubSeq(s, i + Len(pat), Len(s))

\* a header value is falsy when it is absent or the empty string
Falsy(h) == h = None \/ h[1] = <<>>

\* request.headers.get('x-api-key') ||
\*   request.headers.get('authorization')?.replace('Bearer ', '')
apiKeyHeader(xApiKey, authorization) ==
    IF ~Falsy(xApiKey)
    THEN xApiKey
    ELSE IF authorization = None
         THEN None
         ELSE Some(replace(authorization[1], Bearer_, <<>>))

\* ------------------------------------------------------------- key store
fpl_A == fpl_ \o <<"A">>
fpl_B == fpl_ \o <<"B">>
fpl_I == fpl_ \o <<"I">>
fpl_X == fpl_ \o <<"X">>
not_prefixed == <<"n", "o", "t", "-", "p", "r", "e", "f", "i", "x", "e", "d">>

\* key B expires on 2025-01-02 at 00:30
KeyBExpiry == MinutesPerDay + 30

\* rows of api_keys: an active key with ceiling 1, an active key with
\* ceiling 2 and an expiry date, and a disabled key.  last_used_at, which
\* updateApiKeyLastUsed writes and nothing reads, is left out; the write is
\* recorded among the storage operations of the request
api_keys ==
    [id \in 1..3 |->
        [id |-> id,
         api_key |-> CASE id = 1 -> fpl_A [] id = 2 -> fpl_B [] OTHER -> fpl_I,
         is_active |-> IF id = 3 THEN 0 ELSE 1,
         rate_limit |-> IF id = 1 THEN 1 ELSE 2,
         expires_at |-> IF id = 2 THEN Some(CURRENT_TIMESTAMP(KeyBExpiry)) ELSE None]]

\* outcomes of the storage layer for one use of the database:
\* getDatabase()/initialize() rejects, the statement itself errors, or both work
DbOutcomes == {"ok", "open_fail", "query_err"}

\* FPLDatabase.validateApiKey: SELECT * FROM api_keys WHERE api_key = ? AND
\* is_active = 1 AND (expires_at IS NULL OR expires_at > datetime('now'));
\* a query error resolves null; a found row triggers updateApiKeyLastUsed
validateApiKey(keys, apiKey, now, queryErr) ==
    LET match == {id \in DOMAIN keys :
                    /\ keys[id].api_key = apiKey
                    /\ keys[id].is_active = 1
                    /\ \/ keys[id].expires_at = None
                       \/ TextGreater(keys[id].expires_at[1], CURRENT_TIMESTAMP(now))}
    IN  IF queryErr \/ match = {}
        THEN [row |-> None, touched |-> FALSE]
        ELSE [row |-> Some(keys[CHOOSE id \in match : TRUE]), touched |-> TRUE]

\* FPLDatabase.getApiUsageSince: SELECT COUNT(*) FROM api_usage WHERE
\* api_key_id = ? AND created_at > ?; a query error resolves 0
getApiUsageSince(usage, apiKeyId, since, queryErr) ==
    IF queryErr
    THEN 0
    ELSE Cardinality({i \in 1..Len(usage) :
                        /\ usage[i].api_key_id = apiKeyId
                        /\ TextGreater(usage[i].created_at, since)})

\* --------------------------------------------------------- authentication
AuthFailure(error, statusCode, ops) ==
    [authenticated |-> FALSE, apiKey |-> None, error |-> error,
     statusCode |-> Some(statusCode), storageOps |-> ops]

MsgRequired == "API key is required. Include x-api-key header with your API key."
MsgFormat == "Invalid API key format. API keys must start with fpl_"
MsgInvalid == "Invalid or expired API key. Please check your API key or contact admin."
MsgDisabled == "API key is disabled. Please contact admin."
MsgUnavailable == "Authentication service temporarily unavailable. Please try again later."

\* authenticateApiKey without the format validation: every present
\* credential is looked up
authenticateApiKey_noFormatCheck(xApiKey, authorization, dbOutcome, keys, now) ==
    LET hdr == apiKeyHeader(xApiKey, authorization)
    IN  IF Falsy(hdr)
        THEN AuthFailure(MsgRequired, 401, <<>>)
        ELSE IF dbOutcome = "open_fail"
        THEN AuthFailure(MsgUnavailable, 503, <<"initialize">>)
        ELSE LET v == validateApiKey(keys, hdr[1], now, dbOutcome = "query_err")
                 ops == <<"initialize", "validateApiKey">>
             IN  IF v.row = None
                 THEN AuthFailure(MsgInvalid, 401, ops)
                 ELSE [authenticated |-> TRUE, apiKey |-> v.row, error |-> "",
                       statusCode |-> None,
                       storageOps |-> ops \o <<"updateApiKeyLastUsed">>]

\* authenticateApiKey; storageOps lists the storage operations it performed
authenticateApiKey(xApiKey, authorization, dbOutcome, keys, now) ==
    LET hdr == apiKeyHeader(xApiKey, authorization)
    IN  IF Falsy(hdr)
        THEN AuthFailure(MsgRequired, 401, <<>>)
        ELSE IF ~startsWith(hdr[1], fpl_)
        THEN AuthFailure(MsgFormat, 401, <<>>)
        ELSE IF dbOutcome = "open_fail"
        THEN AuthFailure(MsgUnavailable, 503, <<"initialize">>)
        ELSE LET v == validateApiKey(keys, hdr[1], now, dbOutcome = "query_err")
                 ops == <<"initialize", "validateApiKey">>
             IN  IF v.row = None
                 THEN AuthFailure(MsgInvalid, 401, ops)
                 ELSE IF v.row[1].is_active = 0
                 THEN AuthFailure(MsgDisabled, 403, ops \o <<"updateApiKeyLastUsed">>)
                 ELSE [authenticated |-> TRUE, apiKey |-> v.row, error |-> "",
                       statusCode |-> None,
                       storageOps |-> ops \o <<"updateApiKeyLastUsed">>]

\* createAuthenticationError(message, statusCode).  Here and in the other
\* bodies the timestamp fields (new Date().toISOString()) are left out
createAuthenticationError(message, statusCode) ==
    [status |-> statusCode,
     body |-> [success |-> FALSE, error |-> "Authentication failed",
               message |-> message, help |-> "helpInfo",
               status_code |-> statusCode]]

\* ------------------------------------------------------------- rate limit
\* checkRateLimit: a failure to open the database is caught and allows
RateLimitMessage(limit) ==
    <<"Rate limit exceeded. Maximum ", limit, " requests per hour allowed.">>

\* checkRateLimit counting the request being checked as well
checkRateLimit_offByOne(apiKey, dbOutcome, usage, now) ==
    IF dbOutcome = "open_fail"
    THEN [allowed |-> TRUE, error |-> None]
    ELSE LET oneHourAgo == toISOString(now - WindowMin)
             recentUsage == getApiUsageSince(usage, apiKey.id, oneHourAgo,
                                             dbOutcome = "query_err")
         IN  IF recentUsage + 1 >= apiKey.rate_limit
             THEN [allowed |-> FALSE, error |-> Some(RateLimitMessage(apiKey.rate_limit))]
             ELSE [allowed |-> TRUE, error |-> None]

\* checkRateLimit rejecting the request when the count cannot be obtained
checkRateLimit_failClosed(apiKey, dbOutcome, usage, now) ==
    IF dbOutcome # "ok"
    THEN [allowed |-> FALSE, error |-> Some(RateLimitMessage(apiKey.rate_limit))]
    ELSE LET oneHourAgo == toISOString(now - WindowMin)
             recentUsage == getApiUsageSince(usage, apiKey.id, oneHourAgo, FALSE)
         IN  IF recentUsage >= apiKey.rate_limit
             THEN [allowed |-> FALSE, error |-> Some(RateLimitMessage(apiKey.rate_limit))]
             ELSE [allowed |-> TRUE, error |-> None]

checkRateLimit(apiKey, dbOutcome, usage, now) ==
    IF dbOutcome = "open_fail"
    THEN [allowed |-> TRUE, error |-> None]
    ELSE LET oneHourAgo == toISOString(now - WindowMin)
             recentUsage == getApiUsageSince(usage, apiKey.id, oneHourAgo,
                                             dbOutcome = "query_err")
         IN  IF recentUsage >= apiKey.rate_limit
             THEN [allowed |-> FALSE, error |-> Some(RateLimitMessage(apiKey.rate_limit))]
             ELSE [allowed |-> TRUE, error |-> None]

\* the 429 response of withAuth
RateLimitResponse(apiKey, error) ==
    [status |-> 429,
     body |-> [success |-> FALSE, error |-> "Rate limit exceeded",
               message |-> error,
               rate_limit |-> [limit |-> apiKey.rate_limit, window |-> "1 hour",
                               reset_at |-> "in 1 hour"]]]

\* a catch clause that reports the error's message to the client
withAuthCatch_leak(thrown) ==
    [response |-> Some([status |-> 500,
                        body |-> [success |-> FALSE, error |-> "Internal server error",
                                  message |-> thrown]]),
     rethrown |-> None]

\* the catch clause of withAuth: whatever was thrown becomes this response
\* and nothing is thrown again
withAuthCatch(thrown) ==
    [response |-> Some([status |-> 500,
                        body |-> [success |-> FALSE, error |-> "Internal server error",
                                  message |-> "An unexpected error occurred"]]),
     rethrown |-> None]

\* a finally clause that logs the status the request started with
finallyLog_initialStatus(apiKey, statusCode) ==
    IF apiKey # None
    THEN <<[apiKeyId |-> apiKey[1].id, statusCode |-> 200]>>
    ELSE <<>>

\* the finally clause of withAuth: the usage events handed to logApiRequest
\* (endpoint, method, latency, user agent and client address are carried
\* along unchanged and left out)
finallyLog(apiKey, statusCode) ==
    IF apiKey # None
    THEN <<[apiKeyId |-> apiKey[1].id, statusCode |-> statusCode]>>
    ELSE <<>>

\* FPLDatabase.updateDailyStats: the upsert of the day's rollup row of a key
\* (INSERT ... ON CONFLICT(api_key_id, date) DO UPDATE); the mean response
\* time is left out
updateDailyStats(stats, apiKeyId, statusCode, now) ==
    LET today == DatePart(now)
        isSuccess == statusCode >= 200 /\ statusCode < 400
        old == {s \in stats : s.api_key_id = apiKeyId /\ s.date = today}
    IN  IF old = {}
        THEN stats \cup {[api_key_id |-> apiKeyId, date |-> today,
                          total_requests |-> 1,
                          successful_requests |-> IF isSuccess THEN 1 ELSE 0,
                          failed_requests |-> IF isSuccess THEN 0 ELSE 1]}
        ELSE (stats \ old) \cup
             {[s EXCEPT !.total_requests = @ + 1,
                        !.successful_requests = @ + (IF isSuccess THEN 1 ELSE 0),
                        !.failed_requests = @ + (IF isSuccess THEN 0 ELSE 1)] :
              s \in old}

\* FPLDatabase.logApiUsage: returns the promise of the INSERT INTO api_usage
\* (created_at DEFAULT CURRENT_TIMESTAMP; an insert error is logged and the
\* promise still resolves).  The call of updateDailyStats stands after that
\* return statement, so it is never executed and api_usage_stats is left as
\* it is.
logApiUsage(usage, stats, data, now, insertErr) ==
    [api_usage |-> IF insertErr
                   THEN usage
                   ELSE Append(usage, [id |-> Len(usage) + 1,
                                       api_key_id |-> data.apiKeyId,
                                       status_code |-> data.statusCode,
                                       created_at |-> CURRENT_TIMESTAMP(now)]),
     api_usage_stats |-> stats]

\* ------------------------------------------------------ league API data
\* rows of the bootstrap-static and fixtures payloads (a null score is an
\* absent value)
Team1 ==
    [id |-> 1, name |-> "Arsenal", short_name |-> "ARS", code |-> 3,
     strength |-> 4,
     strength_overall_home |-> 1300, strength_overall_away |-> 1350,
     strength_attack_home |-> 1200, strength_attack_away |-> 1250,
     strength_defence_home |-> 1100, strength_defence_away |-> 1150]
Team2 ==
    [id |-> 2, name |-> "Burnley", short_name |-> "BUR", code |-> 90,
     strength |-> 2,
     strength_overall_home |-> 1000, strength_overall_away |-> 1050,
     strength_attack_home |-> 900, strength_attack_away |-> 950,
     strength_defence_home |-> 800, strength_defence_away |-> 850]
Element1 ==
    [id |-> 1, web_name |-> "Saka", team |-> 1, element_type |-> 3,
     now_cost |-> 100, form |-> 6, ict_index |-> 80, minutes |-> 900]
Element2 ==
    [id |-> 2, web_name |-> "Foster", team |-> 2, element_type |-> 4,
     now_cost |-> 50, form |-> 2, ict_index |-> 20, minutes |-> 0]
Fixture1 ==
    [id |-> 1, event |-> 1, team_h |-> 1, team_a |-> 2,
     team_h_score |-> Some(2), team_a_score |-> Some(1), finished |-> TRUE,
     kickoff_time |-> "2025-08-16T14:00:00Z",
     team_h_difficulty |-> 2, team_a_difficulty |-> 4]
Fixture2 ==
    [id |-> 2, event |-> 2, team_h |-> 2, team_a |-> 1,
     team_h_score |-> None, team_a_score |-> None, finished |-> FALSE,
     kickoff_time |-> "2025-08-23T14:00:00Z",
     team_h_difficulty |-> 5, team_a_difficulty |-> 2]
Event1 == [id |-> 1, is_current |-> FALSE]
Event2 == [id |-> 2, is_current |-> TRUE]

\* what the league API may serve during one behaviour
FullUpstream ==
    [teams |-> <<Team1, Team2>>, elements |-> <<Element1>>,
     events |-> <<Event1, Event2>>, fixtures |-> <<Fixture1>>]
Upstreams ==
    { FullUpstream,
      [FullUpstream EXCEPT !.events = <<Event1>>],
      [FullUpstream EXCEPT !.teams = <<>>],
      [FullUpstream EXCEPT !.elements = <<>>],
      [FullUpstream EXCEPT !.fixtures = <<>>] }

NoUpstream == [teams |-> <<>>, elements |-> <<>>, events |-> <<>>, fixtures |-> <<>>]

\* ------------------------------------------------- sync: FPLDatabase part
\* the rows the three prepared INSERT OR REPLACE statements write; created_at
\* is not in their column lists and takes its DEFAULT CURRENT_TIMESTAMP
TeamRow(team, now) ==
    [id |-> team.id, name |-> team.name, short_name |-> team.short_name,
     code |-> team.code, strength |-> team.strength,
     strength_overall_home |-> team.strength_overall_home,
     strength_overall_away |-> team.strength_overall_away,
     strength_attack_home |-> team.strength_attack_home,
     strength_attack_away |-> team.strength_attack_away,
     strength_defence_home |-> team.strength_defence_home,
     strength_defence_away |-> team.strength_defence_away,
     created_at |-> CURRENT_TIMESTAMP(now)]

\* of the 37 player columns the ones read elsewhere, and one of those
\* written as "value || 0"
PlayerRow(player, now) ==
    [id |-> player.id, web_name |-> player.web_name, team_id |-> player.team,
     element_type |-> player.element_type, now_cost |-> player.now_cost,
     form |-> player.form, minutes |-> player.minutes,
     ict_index |-> player.ict_index,
     created_at |-> CURRENT_TIMESTAMP(now)]

FixtureRow(fixture, now) ==
    [id |-> fixture.id, event |-> fixture.event, team_h |-> fixture.team_h,
     team_a |-> fixture.team_a, team_h_score |-> fixture.team_h_score,
     team_a_score |-> fixture.team_a_score, finished |-> fixture.finished,
     kickoff_time |-> fixture.kickoff_time,
     difficulty_h |-> fixture.team_h_difficulty,
     difficulty_a |-> fixture.team_a_difficulty,
     created_at |-> CURRENT_TIMESTAMP(now)]

\* INSERT OR REPLACE on a table whose PRIMARY KEY is id: the row with the
\* same id is deleted, the new row is inserted
insertOrReplace_plainInsert(table, row) == table \cup {row}
insertOrReplace(table, row) == {x \in table : x.id # row.id} \cup {row}

\* list.forEach(row => stmt.run(row, callback)): the rows are written in
\* order; the statement of a row in failed reports an error, which the
\* callback logs and drops
RECURSIVE forEachRun(_, _, _, _)
forEachRun(table, rows, failed, i) ==
    IF i > Len(rows)
    THEN table
    ELSE forEachRun(IF i \in failed THEN table ELSE insertOrReplace(table, rows[i]),
                    rows, failed, i + 1)

\* the promise of insertTeams / insertPlayers / insertFixtures is resolved
\* by the callback that finds completed === list.length, so it is resolved
\* only if at least one callback runs
forEachResolves(list) == Len(list) > 0

insertTeams(table, list, failed, now) ==
    forEachRun(table, [i \in 1..Len(list) |-> TeamRow(list[i], now)], failed, 1)
insertPlayers(table, list, failed, now) ==
    forEachRun(table, [i \in 1..Len(list) |-> PlayerRow(list[i], now)], failed, 1)
insertFixtures(table, list, failed, now) ==
    forEachRun(table, [i \in 1..Len(list) |-> FixtureRow(list[i], now)], failed, 1)

\* --------------------------------------------------- RealFPLDataFetcher
\* makeRequest's catch clause: one more attempt after requestDelay *
\* (retries + 1) ms while retries < maxRetries, otherwise the error is
\* rethrown
makeRequestCatch_oneMore(retries) ==
    IF retries <= maxRetries
    THEN [retry |-> TRUE, delay |-> requestDelay * (retries + 1)]
    ELSE [retry |-> FALSE, delay |-> 0]
makeRequestCatch(retries) ==
    IF retries < maxRetries
    THEN [retry |-> TRUE, delay |-> requestDelay * (retries + 1)]
    ELSE [retry |-> FALSE, delay |-> 0]

\* the three stages of fetchAllData, in program order, and the message its
\* catch clause pushes for each (the error's own text is left out)
Stages == <<"bootstrap", "fixtures", "currentGameweek">>
StageMessage(stage) ==
    CASE stage = "bootstrap" -> "Bootstrap fetch failed"
      [] stage = "fixtures" -> "Fixtures fetch failed"
      [] stage = "currentGameweek" -> "Current GW fetch failed"

\* the body the league API answers with: /fixtures/ for the second stage,
\* /bootstrap-static/ for the first and the third
Payload(up, stage) ==
    IF Stages[stage] = "fixtures"
    THEN up.fixtures
    ELSE [teams |-> up.teams, elements |-> up.elements, events |-> up.events]

\* fetchCurrentGameweek: the id of the first event flagged is_current, or 1
fetchCurrentGameweek(bootstrap) ==
    LET current == {i \in 1..Len(bootstrap.events) : bootstrap.events[i].is_current}
    IN  IF current = {}
        THEN 1
        ELSE bootstrap.events[CHOOSE i \in current : \A j \in current : i <= j].id

\* what fetchAllData returns
fetchAllDataResult(errors, allData) ==
    [success |-> Len(errors) = 0, data |-> allData, errors |-> errors]

NoData == [bootstrap |-> None, fixtures |-> None, currentGameweek |-> None]

IdleFetch ==
    [pc |-> "idle", stage |-> 0, retries |-> 0, attempts |-> 0, waits |-> <<>>,
     response |-> None, attempted |-> <<>>,
     errors |-> <<>>, allData |-> NoData, result |-> None, answer |-> None,
     \* no stage and no row insert has failed in any invocation so far
     clean |-> TRUE]

\* a stage begins with its makeRequest(url, retries = 0); after the third
\* stage fetchAllData builds its result
beginStage(f, k) ==
    IF k > Len(Stages)
    THEN [f EXCEPT !.pc = "finish", !.stage = k]
    ELSE [f EXCEPT !.pc = "makeRequest", !.stage = k, !.retries = 0,
                   !.attempts = 0, !.waits = <<>>, !.response = None,
                   !.attempted = Append(@, Stages[k])]

\* the catch clause of a stage: push the stage's message, go on with the
\* next stage
failStage(f) ==
    beginStage([f EXCEPT !.errors = Append(@, StageMessage(Stages[f.stage])),
                         !.clean = FALSE],
               f.stage + 1)

\* syncHandler: the answer built from what fetchAllData returned.  The sync
\* record it tries to save first stands in a try block of its own, and
\* fetchAllData does not throw, so the answer is always this one.
syncHandler(result) ==
    [status |-> 200,
     body |-> [success |-> result.success,
               message |-> IF result.success
                           THEN "FPL data synchronized successfully"
                           ELSE "Data sync completed with errors",
               data |-> [teams |-> IF result.data.bootstrap = None THEN 0
                                   ELSE Len(result.data.bootstrap[1].teams),
                         players |-> IF result.data.bootstrap = None THEN 0
                                     ELSE Len(result.data.bootstrap[1].players),
                         fixtures |-> IF result.data.fixtures = None THEN 0
                                      ELSE Len(result.data.fixtures[1]),
                         currentGameweek |-> result.data.currentGameweek],
               errors |-> result.errors]]

\* ------------------------------------------------------ FeatureEngineer
\* a JavaScript number that is a non-negative fraction, in lowest terms
RECURSIVE GCD(_, _)
GCD(a, b) == IF b = 0 THEN a ELSE GCD(b, a % b)
Frac(n, d) == IF n = 0 THEN <<0, 1>> ELSE <<n \div GCD(n, d), d \div GCD(n, d)>>
Max(a, b) == IF a >= b THEN a ELSE b

RECURSIVE Sum(_)
Sum(seq) == IF seq = <<>> THEN 0 ELSE Head(seq) + Sum(Tail(seq))

\* "value || dflt" on a number that may be undefined (0 stands for both)
Or(value, dflt) == IF value = 0 THEN dflt ELSE value

\* "row.field" of an object that may be {}
Field(row, name) == IF row = None THEN 0 ELSE row[1][name]

\* "score || 0" of a column that may be NULL
ScoreOr0(score) == IF score = None THEN 0 ELSE score[1]

\* the database reads of one extractMatchFeatures call
Lookups ==
    {"homeTeam", "awayTeam", "homeForm", "awayForm", "h2h", "homeQuality", "awayQuality"}

\* getTeamData: the teams row, or {} if there is none or the query fails
getTeamData(teamsTable, teamId, err) ==
    LET rows == {t \in teamsTable : t.id = teamId}
    IN  IF err \/ rows = {} THEN None ELSE Some(CHOOSE t \in rows : TRUE)

\* ORDER BY event DESC LIMIT n
RECURSIVE latestByEvent(_, _)
latestByEvent(rows, n) ==
    IF n = 0 \/ rows = {}
    THEN <<>>
    ELSE LET top == CHOOSE x \in rows : \A y \in rows : y.event <= x.event
         IN  <<top>> \o latestByEvent(rows \ {top}, n - 1)

\* calculateTeamForm: points, goals for and goals against per match over the
\* last `matches` finished fixtures of the team before the gameweek; a failed
\* query counts as no fixtures
calculateTeamForm(fixturesTable, teamId, currentGameweek, matches, err) ==
    LET recentMatches ==
            IF err
            THEN <<>>
            ELSE latestByEvent({f \in fixturesTable :
                                   /\ f.team_h = teamId \/ f.team_a = teamId
                                   /\ f.finished
                                   /\ f.event < currentGameweek}, matches)
        isHome(m) == m.team_h = teamId
        teamScore(m) == IF isHome(m) THEN ScoreOr0(m.team_h_score)
                                     ELSE ScoreOr0(m.team_a_score)
        opponentScore(m) == IF isHome(m) THEN ScoreOr0(m.team_a_score)
                                         ELSE ScoreOr0(m.team_h_score)
        won(m) == IF teamScore(m) > opponentScore(m) THEN 3
                  ELSE IF teamScore(m) = opponentScore(m) THEN 1 ELSE 0
        over(F(_)) == Sum([i \in 1..Len(recentMatches) |-> F(recentMatches[i])])
        matchCount == Max(Len(recentMatches), 1)
    IN  [points |-> Frac(over(won), matchCount),
         goals_for |-> Frac(over(teamScore), matchCount),
         goals_against |-> Frac(over(opponentScore), matchCount)]

\* getHeadToHeadRecord: wins of either side and draws over the last 10
\* finished fixtures between the two teams
getHeadToHeadRecord(fixturesTable, homeTeamId, awayTeamId, err) ==
    LET h2hMatches ==
            IF err
            THEN <<>>
            ELSE latestByEvent({f \in fixturesTable :
                                   /\ \/ f.team_h = homeTeamId /\ f.team_a = awayTeamId
                                      \/ f.team_h = awayTeamId /\ f.team_a = homeTeamId
                                   /\ f.finished}, 10)
        homeScore(m) == ScoreOr0(m.team_h_score)
        awayScore(m) == ScoreOr0(m.team_a_score)
        homeWin(m) == IF \/ homeScore(m) > awayScore(m) /\ m.team_h = homeTeamId
                         \/ homeScore(m) < awayScore(m) /\ m.team_a = homeTeamId
                      THEN 1 ELSE 0
        draw(m) == IF homeScore(m) = awayScore(m) THEN 1 ELSE 0
        awayWin(m) == 1 - homeWin(m) - draw(m)
        over(F(_)) == Sum([i \in 1..Len(h2hMatches) |-> F(h2hMatches[i])])
    IN  [home_wins |-> over(homeWin), draws |-> over(draw),
         away_wins |-> over(awayWin), total_matches |-> Len(h2hMatches)]

\* calculateTeamPlayerQuality: mean ict_index and form of the team's players,
\* 50 and 5 if there are none or the query fails
calculateTeamPlayerQuality(playersTable, teamId, err) ==
    LET rows == IF err THEN {} ELSE {q \in playersTable : q.team_id = teamId}
        RECURSIVE total(_, _)
        total(set, name) ==
            IF set = {} THEN 0
            ELSE LET q == CHOOSE x \in set : TRUE
                 IN  Or(q[name], 0) + total(set \ {q}, name)
    IN  IF rows = {}
        THEN [avg_ict |-> Frac(50, 1), avg_form |-> Frac(5, 1)]
        ELSE [avg_ict |-> Frac(total(rows, "ict_index"), Cardinality(rows)),
              avg_form |-> Frac(total(rows, "form"), Cardinality(rows))]

\* a fraction divided by a positive integer
Over(x, k) == Frac(x[1], x[2] * k)

\* "while (features.length < 20) features.push(0.5)", then slice(0, 20)
padTo20(features) ==
    [i \in 1..20 |-> IF i <= Len(features) THEN features[i] ELSE Frac(1, 2)]

\* extractMatchFeatures (the version with per-lookup defaults): 6 strength,
\* 6 form, 4 head-to-head and 4 player-quality features.  Each lookup
\* resolves with its default when its query fails, so no statement of the
\* try block throws and the catch clause, which would return twenty times
\* 0.5, is not entered.
extractMatchFeatures(teamsTable, playersTable, fixturesTable, homeTeamId, awayTeamId, gameweek, failing) ==
    LET homeTeam == getTeamData(teamsTable, homeTeamId, "homeTeam" \in failing)
        awayTeam == getTeamData(teamsTable, awayTeamId, "awayTeam" \in failing)
        homeForm == calculateTeamForm(fixturesTable, homeTeamId, gameweek, 5,
                                      "homeForm" \in failing)
        awayForm == calculateTeamForm(fixturesTable, awayTeamId, gameweek, 5,
                                      "awayForm" \in failing)
        h2h == getHeadToHeadRecord(fixturesTable, homeTeamId, awayTeamId,
                                   "h2h" \in failing)
        totalH2H == Max(h2h.total_matches, 1)
        homePlayerQuality == calculateTeamPlayerQuality(playersTable, homeTeamId,
                                                        "homeQuality" \in failing)
        awayPlayerQuality == calculateTeamPlayerQuality(playersTable, awayTeamId,
                                                        "awayQuality" \in failing)
    IN  padTo20(
          << Frac(Or(Field(homeTeam, "strength_overall_home"), 1000), 1000),
             Frac(Or(Field(homeTeam, "strength_attack_home"), 1000), 1000),
             Frac(Or(Field(homeTeam, "strength_defence_home"), 1000), 1000),
             Frac(Or(Field(awayTeam, "strength_overall_away"), 1000), 1000),
             Frac(Or(Field(awayTeam, "strength_attack_away"), 1000), 1000),
             Frac(Or(Field(awayTeam, "strength_defence_away"), 1000), 1000),
             Over(homeForm.points, 3),
             Over(homeForm.goals_for, 3),
             Over(homeForm.goals_against, 3),
             Over(awayForm.points, 3),
             Over(awayForm.goals_for, 3),
             Over(awayForm.goals_against, 3),
             Frac(h2h.home_wins, totalH2H),
             Frac(h2h.draws, totalH2H),
             Frac(h2h.away_wins, totalH2H),
             IF h2h.total_matches >= 10 THEN Frac(1, 1)
                                        ELSE Frac(h2h.total_matches, 10),
             Over(homePlayerQuality.avg_ict, 100),
             Over(homePlayerQuality.avg_form, 10),
             Over(awayPlayerQuality.avg_ict, 100),
             Over(awayPlayerQuality.avg_form, 10) >>)

\* ORDER BY event ASC (rows of one event in the order of the primary key)
byEventAsc(rows) ==
    LET before(x) == {y \in rows : y.event < x.event \/ (y.event = x.event /\ y.id < x.id)}
        rank == [x \in rows |-> Cardinality(before(x)) + 1]
    IN  [i \in 1..Cardinality(rows) |-> CHOOSE x \in rows : rank[x] = i]

\* FPLDatabase.getFinishedMatches: the finished fixtures with both scores,
\* or [] if the query fails
getFinishedMatches(fixturesTable, err) ==
    IF err
    THEN <<>>
    ELSE byEventAsc({f \in fixturesTable :
                        f.finished /\ f.team_h_score # None /\ f.team_a_score # None})

encodeMatchResult(homeScore, awayScore) ==
    IF homeScore > awayScore THEN <<1, 0, 0>>
    ELSE IF homeScore = awayScore THEN <<0, 1, 0>>
    ELSE <<0, 0, 1>>

\* Math.random(): the j-th number in [0, 1) of the generator seeded with seed
Random(seed, j) == Frac((seed * 7 + j * 5) % 16, 16)

\* Math.floor(Math.random() * 4)
RandomScore(seed, j) == (Random(seed, j)[1] * 4) \div Random(seed, j)[2]

\* the k-th synthetic sample: 20 random features and the label of a random
\* score line
syntheticSample(seed, k) ==
    [features |-> [i \in 1..20 |-> Random(seed, 22 * k + i)],
     label |-> encodeMatchResult(RandomScore(seed, 22 * k + 21),
                                 RandomScore(seed, 22 * k + 22))]

\* the sample extracted from a finished fixture
realSample(teamsTable, playersTable, fixturesTable, match, failing) ==
    [features |-> extractMatchFeatures(teamsTable, playersTable, fixturesTable,
                                       match.team_h, match.team_a, match.event,
                                       failing),
     label |-> encodeMatchResult(ScoreOr0(match.team_h_score),
                                 ScoreOr0(match.team_a_score))]

\* (variant without the synthetic samples, as in the later version of the class)
prepareTrainingData_noSynthetic(teamsTable, playersTable, fixturesTable, queryErr, failing, seed) ==
    LET finishedMatches == getFinishedMatches(fixturesTable, queryErr)
    IN  [i \in 1..Min(Len(finishedMatches), 500) |->
            realSample(teamsTable, playersTable, fixturesTable,
                       finishedMatches[i], failing)]
\* prepareTrainingData: one sample per finished fixture (at most 500), then
\* synthetic samples while there are fewer than 100.  Its catch clause (200
\* synthetic samples) is not entered: getFinishedMatches and
\* extractMatchFeatures never reject and the rows all have 20 entries.
prepareTrainingData(teamsTable, playersTable, fixturesTable, queryErr, failing, seed) ==
    LET finishedMatches == getFinishedMatches(fixturesTable, queryErr)
        maxSamples == Min(Len(finishedMatches), 500)
        sampleMatches == SubSeq(finishedMatches, 1, maxSamples)
    IN  [i \in 1..Max(maxSamples, 100) |->
            IF i <= maxSamples
            THEN realSample(teamsTable, playersTable, fixturesTable,
                            sampleMatches[i], failing)
            ELSE syntheticSample(seed, i - maxSamples)]

\* ---------------------------------------------------- ProductionMLModel
\* the two versions of the class that use TensorFlow: the one in
\* src/lib/ml/production-model.ts and the later one, which falls back to
\* fixed values
Drafts == {"lib", "later"}
modelVersion == "1.0.0"

\* the steps of trainModel and of predictMatch that may throw
TrainFaults == {"none", "initialize", "createModel", "fit", "saveModel", "saveHistory"}

\* what model.fit reports for the final epoch, in hundredths; validation
\* metrics may be missing
FitHistories ==
    { [acc |-> 80, loss |-> 50, val_acc |-> Some(78), val_loss |-> Some(52)],
      [acc |-> 0, loss |-> 0, val_acc |-> None, val_loss |-> None] }

\* the metrics object trainModel computes after model.fit
trainMetrics(draft, history, samples) ==
    IF draft = "lib"
    THEN [accuracy |-> Some(history.acc), loss |-> Some(history.loss),
          val_accuracy |-> history.val_acc, val_loss |-> history.val_loss,
          epochs |-> 50, samples |-> samples]
    ELSE [accuracy |-> Some(Or(history.acc, 82)), loss |-> Some(Or(history.loss, 45)),
          val_accuracy |-> IF history.val_acc # None THEN history.val_acc ELSE Some(80),
          val_loss |-> IF history.val_loss # None THEN history.val_loss ELSE Some(48),
          epochs |-> 30, samples |-> samples]

\* "metric || dflt" on a metric that may be null
MetricOr(metric, dflt) == IF metric = None \/ metric = Some(0) THEN Some(dflt) ELSE metric

\* the training_history row saveTrainingHistory inserts
trainingRow(draft, metrics) ==
    IF draft = "lib"
    THEN [model_version |-> modelVersion, training_samples |-> metrics.samples,
          accuracy |-> metrics.accuracy, loss |-> metrics.loss,
          val_accuracy |-> metrics.val_accuracy, val_loss |-> metrics.val_loss]
    ELSE [model_version |-> modelVersion,
          training_samples |-> Or(metrics.samples, 200),
          accuracy |-> MetricOr(metrics.accuracy, 82),
          loss |-> MetricOr(metrics.loss, 45),
          val_accuracy |-> MetricOr(metrics.val_accuracy, 80),
          val_loss |-> MetricOr(metrics.val_loss, 48)]

\* (variant in which a failed history insert is only logged)
trainModel_ignoresSaveFailure(draft, fault, dataset, history, rows) ==
    IF fault \in {"createModel", "fit"} \/ (draft = "lib" /\ fault = "saveModel")
    THEN [raised |-> Some(fault), metrics |-> None, training_history |-> rows]
    ELSE [raised |-> None,
          metrics |-> Some(trainMetrics(draft, history, Len(dataset))),
          training_history |->
              IF fault = "saveHistory" THEN rows
              ELSE Append(rows, trainingRow(draft, trainMetrics(draft, history,
                                                                Len(dataset))))]
\* trainModel: loadOrCreateModel, prepareTrainingData (its result is
\* dataset), the sample threshold of the first version, model.fit, saveModel
\* (whose failure only the later version swallows), saveTrainingHistory
\* (whose rejection both versions let through)
trainModel(draft, fault, dataset, history, rows) ==
    LET metrics == trainMetrics(draft, history, Len(dataset))
    IN  IF fault = "createModel"
        THEN [raised |-> Some(fault), metrics |-> None, training_history |-> rows]
        ELSE IF draft = "lib" /\ Len(dataset) < 100
        THEN [raised |-> Some("Insufficient training data"), metrics |-> None,
              training_history |-> rows]
        ELSE IF fault = "fit" \/ (draft = "lib" /\ fault = "saveModel")
        THEN [raised |-> Some(fault), metrics |-> None, training_history |-> rows]
        ELSE IF fault = "saveHistory"
        THEN [raised |-> Some(fault), metrics |-> None, training_history |-> rows]
        ELSE [raised |-> None, metrics |-> Some(metrics),
              training_history |-> Append(rows, trainingRow(draft, metrics))]

\* trainHandler: getDatabase, trainModel, and the answer: 200 with
\* success: true and the metrics, or, from its catch clause, 500 with
\* success: false
trainHandler(draft, fault, dataset, history, rows) ==
    LET trained == trainModel(draft, fault, dataset, history, rows)
    IN  IF fault = "initialize"
        THEN [response |-> [status |-> 500,
                            body |-> [success |-> FALSE,
                                      error |-> "Production model training failed"]],
              training_history |-> rows]
        ELSE IF trained.raised # None
        THEN [response |-> [status |-> 500,
                            body |-> [success |-> FALSE,
                                      error |-> "Production model training failed"]],
              training_history |-> trained.training_history]
        ELSE [response |-> [status |-> 200,
                            body |-> [success |-> TRUE,
                                      training_samples |-> trained.metrics[1].samples]],
              training_history |-> trained.training_history]

PredictFaults == {"none", "createModel", "forward"}

\* softmax outputs (home, draw, away) in hundredths, ties included
Probabilities ==
    {<<45, 25, 30>>, <<20, 50, 30>>, <<10, 20, 70>>, <<40, 40, 20>>, <<30, 35, 35>>}

\* (variant that reports the home probability as the confidence)
modelPrediction_homeConfidence(probabilities) ==
    [home_win_prob |-> probabilities[1], draw_prob |-> probabilities[2],
     away_win_prob |-> probabilities[3],
     predicted_outcome |-> IF probabilities[1] >= probabilities[2]
                              /\ probabilities[1] >= probabilities[3]
                           THEN "Home Win" ELSE "Draw",
     confidence |-> probabilities[1],
     model_version |-> modelVersion]
\* predictMatch, after the forward pass: the outcome with the largest
\* probability (home before away before draw) and that probability
modelPrediction(probabilities) ==
    LET maxProb == Max(Max(probabilities[1], probabilities[2]), probabilities[3])
    IN  [home_win_prob |-> probabilities[1], draw_prob |-> probabilities[2],
         away_win_prob |-> probabilities[3],
         predicted_outcome |-> IF maxProb = probabilities[1] THEN "Home Win"
                               ELSE IF maxProb = probabilities[3] THEN "Away Win"
                               ELSE "Draw",
         confidence |-> maxProb,
         model_version |-> modelVersion]

\* the object predictMatch's catch clause returns
fallbackPrediction ==
    [home_win_prob |-> 45, draw_prob |-> 25, away_win_prob |-> 30,
     predicted_outcome |-> "Home Win", confidence |-> 45,
     model_version |-> modelVersion]

\* predictMatch: loadOrCreateModel if no model is loaded (outside the try
\* block in both versions), then feature extraction and the forward pass,
\* which only the later version wraps in try/catch
predictMatch(draft, loaded, fault, probabilities) ==
    IF ~loaded /\ fault = "createModel"
    THEN [raised |-> TRUE, result |-> None]
    ELSE IF fault = "forward"
    THEN IF draft = "lib"
         THEN [raised |-> TRUE, result |-> None]
         ELSE [raised |-> FALSE, result |-> Some(fallbackPrediction)]
    ELSE [raised |-> FALSE, result |-> Some(modelPrediction(probabilities))]

\* FPLDatabase.getAllFixtures and getUpcomingFixtures (team names left out)
getAllFixtures(fixturesTable, err) ==
    IF err THEN <<>> ELSE byEventAsc(fixturesTable)
getUpcomingFixtures(fixturesTable, limit, err) ==
    LET rows == IF err THEN <<>> ELSE byEventAsc({f \in fixturesTable : ~f.finished})
    IN  SubSeq(rows, 1, Min(Len(rows), limit))

\* the row counts the generate route asks the database for
getTeamsCount(teamsTable) == Cardinality(teamsTable)
getPlayersCount(playersTable) == Cardinality(playersTable)
getFixturesCount(fixturesTable) == Cardinality(fixturesTable)
getPredictionsCount(rows) == Len(rows)

\* the record predictAllUpcomingMatches builds for a fixture
predictionData(fixture, result) ==
    [fixture_id |-> fixture.id, home_team_id |-> fixture.team_h,
     away_team_id |-> fixture.team_a, gameweek |-> fixture.event,
     home_win_prob |-> result.home_win_prob, draw_prob |-> result.draw_prob,
     away_win_prob |-> result.away_win_prob,
     predicted_outcome |-> result.predicted_outcome,
     confidence |-> result.confidence, model_version |-> result.model_version]

\* the sample prediction the generate route writes for a fixture
samplePrediction(fixture) ==
    [fixture_id |-> fixture.id, home_team_id |-> fixture.team_h,
     away_team_id |-> fixture.team_a, gameweek |-> Or(fixture.event, 1),
     home_win_prob |-> 45, draw_prob |-> 25, away_win_prob |-> 30,
     predicted_outcome |-> "Home Win", confidence |-> 45,
     model_version |-> "1.0.0-demo"]

\* what may go wrong during one run of the generate route: getDatabase,
\* model creation, the forward pass of some fixtures, the insert of some
\* predictions by the model and by the route
GenerateFaults ==
    [initialize : BOOLEAN, createModel : BOOLEAN, forward : SUBSET {2, 3},
     modelSave : SUBSET {2, 3}, routeSave : SUBSET {2, 3}]

\* predictAllUpcomingMatches: for each upcoming fixture predictMatch, push,
\* savePrediction; a throw of either is caught and the loop goes on
predictAllUpcomingMatches(draft, fixturesTable, faults, probabilities, rows) ==
    LET upcomingFixtures == getUpcomingFixtures(fixturesTable,
                                                IF draft = "lib" THEN 20 ELSE 10, FALSE)
        call(f) == predictMatch(draft, ~faults.createModel,
                                IF faults.createModel THEN "createModel"
                                ELSE IF f.id \in faults.forward THEN "forward"
                                ELSE "none",
                                probabilities)
        predicted == SelectSeq(upcomingFixtures, LAMBDA f : ~call(f).raised)
        predictions == [i \in 1..Len(predicted) |->
                           predictionData(predicted[i], call(predicted[i]).result[1])]
    IN  [predictions |-> predictions,
         rows |-> rows \o SelectSeq(predictions,
                                    LAMBDA q : q.fixture_id \notin faults.modelSave)]

\* generateHandler
generateHandler(draft, faults, probabilities, teamsTable, playersTable, fixturesTable, rows) ==
    LET allFixtures == getAllFixtures(fixturesTable, FALSE)
        upcomingFixtures == SelectSeq(allFixtures, LAMBDA f : ~f.finished)
        modelled == predictAllUpcomingMatches(draft, fixturesTable, faults,
                                              probabilities, rows)
        predictions ==
            IF modelled.predictions = <<>> /\ upcomingFixtures # <<>>
            THEN [i \in 1..Min(Len(upcomingFixtures), 10) |->
                     samplePrediction(upcomingFixtures[i])]
            ELSE modelled.predictions
        saved == SelectSeq(predictions, LAMBDA q : q.fixture_id \notin faults.routeSave)
        stored == modelled.rows \o saved
    IN  IF faults.initialize
        THEN [response |-> [status |-> 500,
                            body |-> [success |-> FALSE,
                                      error |-> "Failed to generate predictions"]],
              rows |-> rows]
        ELSE IF \/ getTeamsCount(teamsTable) = 0
                \/ getPlayersCount(playersTable) = 0
                \/ getFixturesCount(fixturesTable) = 0
        THEN [response |-> [status |-> 200,
                            body |-> [success |-> FALSE,
                                      error |-> "No data in database. Please sync FPL data first.",
                                      message |-> "Database appears to be empty. Run data sync before generating predictions."]],
              rows |-> rows]
        ELSE IF upcomingFixtures = <<>>
        THEN [response |-> [status |-> 200,
                            body |-> [success |-> TRUE, predictions |-> <<>>,
                                      message |-> "No upcoming fixtures available for prediction"]],
              rows |-> rows]
        ELSE [response |-> [status |-> 200,
                            body |-> [success |-> TRUE,
                                      predictions |-> predictions,
                                      total_predictions |-> Len(predictions),
                                      predictions_saved |-> Len(saved),
                                      total_predictions_in_db |-> getPredictionsCount(stored)]],
              rows |-> stored]

\* ------------------------------------------------- stored league data
Fixture3 ==
    [Fixture2 EXCEPT !.id = 3, !.event = 3, !.team_h = 1, !.team_a = 2,
                     !.kickoff_time = "2025-08-30T14:00:00Z"]

\* the i-th finished fixture of a long history between the two teams
FinishedFixture(i) ==
    [id |-> 100 + i, event |-> i, team_h |-> 1 + (i % 2), team_a |-> 2 - (i % 2),
     team_h_score |-> Some(i % 3), team_a_score |-> Some((i \div 3) % 3),
     finished |-> TRUE, kickoff_time |-> "2024-08-16T14:00:00Z",
     team_h_difficulty |-> 3, team_a_difficulty |-> 3]

\* what earlier syncs may have left in the tables: nothing; two teams with a
\* player each, one finished and two upcoming fixtures; the same with a
\* history of n finished fixtures
Stored(list) ==
    [teams |-> insertTeams({}, <<Team1, Team2>>, {}, StartClock),
     players |-> insertPlayers({}, <<Element1, Element2>>, {}, StartClock),
     fixtures |-> insertFixtures({}, list, {}, StartClock)]
StoredEmpty == [teams |-> {}, players |-> {}, fixtures |-> {}]
StoredSmall == Stored(<<Fixture1, Fixture2, Fixture3>>)
StoredHistory(n) ==
    [StoredSmall EXCEPT
        !.fixtures = {FixtureRow(FinishedFixture(i), StartClock) : i \in 1..n}
                        \cup {FixtureRow(Fixture2, StartClock)}]

\* numbers of finished fixtures the training is run with
MatchCounts == {40, 99, 100}

IdleML == [op |-> "none"]

\* ---------------------------------------------------------------- state
VARIABLES
    clock,          \* wall clock, minutes since 2025-01-01 00:00 UTC
    api_usage,      \* table api_usage, in insertion order (id = position)
    api_usage_stats,\* table api_usage_stats: one rollup row per (key, date)
    req,            \* per slot: the withAuth invocation running in it
    logs,           \* logApiRequest calls started by a finally clause, not yet settled
    authenticated,  \* ids of the keys that passed authenticateApiKey so far
    arrivals,       \* number of requests received so far
    upstream,       \* what the league API serves: teams, elements, events, fixtures
    teams,          \* table teams
    players,        \* table players
    fixtures,       \* table fixtures
    fetch,          \* the fetchAllData invocation of the sync orchestrator
    syncs,          \* number of fetchAllData invocations started so far
    training_history, \* table training_history, in insertion order
    predictions,    \* table predictions, in insertion order
    ml              \* the last call made on the feature engineer or the model

gateVars == <<api_usage, api_usage_stats, req, logs, authenticated, arrivals>>
fetchVars == <<upstream, teams, players, fixtures, fetch, syncs>>
mlVars == <<training_history, predictions, ml>>
vars == <<clock, gateVars, fetchVars, mlVars>>

Slots == 1..NumSlots

\* the credential headers a client may send
Headers ==
    { [xApiKey |-> Some(fpl_B), authorization |-> None],
      [xApiKey |-> None, authorization |-> Some(Bearer_ \o fpl_A)],
      [xApiKey |-> None, authorization |-> None],
      [xApiKey |-> Some(not_prefixed), authorization |-> None],
      [xApiKey |-> Some(fpl_I), authorization |-> None],
      [xApiKey |-> Some(fpl_X), authorization |-> None] }

\* status codes the wrapped route handlers answer with (all of them return
\* NextResponse objects) and the errors they may throw
HandlerStatuses == {200, 404}
HandlerErrors == {"SQLITE_CANTOPEN: unable to open database file", "model not loaded"}

IdleRequest ==
    [pc |-> "idle", xApiKey |-> None, authorization |-> None,
     statusCode |-> 200, apiKey |-> None, result |-> None, thrown |-> None,
     handlerCalls |-> 0, storageOps |-> <<>>, submitted |-> <<>>,
     \* history of this invocation, for the properties below
     authDb |-> "", rateDb |-> "", wasValid |-> FALSE, trailing |-> None,
     served |-> 0, threw |-> FALSE]

Init ==
    /\ clock = StartClock
    /\ api_usage = <<>>
    /\ req = [r \in Slots |-> IdleRequest]
    /\ logs = <<>>
    /\ authenticated = {}
    /\ arrivals = 0
    /\ api_usage_stats = {}
    /\ upstream = NoUpstream
    /\ teams = {} /\ players = {} /\ fixtures = {}
    /\ fetch = IdleFetch
    /\ syncs = 0
    /\ training_history = <<>>
    /\ predictions = <<>>
    /\ ml = IdleML

\* the api_usage row's creation time, in minutes
CreatedAtMinutes(s) ==
    LET num(i) == (s[i] - 48) * 10 + (s[i + 1] - 48)
    IN  (num(9) - 1) * MinutesPerDay + num(12) * 60 + num(15)

\* the number of usage events of the key created in the 60 minutes before now
TrailingCount(usage, apiKeyId, now) ==
    Cardinality({i \in 1..Len(usage) :
                    /\ usage[i].api_key_id = apiKeyId
                    /\ CreatedAtMinutes(usage[i].created_at) > now - WindowMin})

\* the number of those events that record a successful call (status 2xx/3xx)
ServedCount(usage, apiKeyId, now) ==
    Cardinality({i \in 1..Len(usage) :
                    /\ usage[i].api_key_id = apiKeyId
                    /\ usage[i].status_code >= 200
                    /\ usage[i].status_code < 400
                    /\ CreatedAtMinutes(usage[i].created_at) > now - WindowMin})

\* the key row the credential names, whatever its state
NamedKeys(keys, h) ==
    LET hdr == apiKeyHeader(h.xApiKey, h.authorization)
    IN  IF Falsy(hdr) THEN {} ELSE {id \in DOMAIN keys : keys[id].api_key = hdr[1]}

\* the credential names an existing, active, unexpired key
IsValidKey(keys, h, now) ==
    \E id \in NamedKeys(keys, h) :
        /\ keys[id].is_active = 1
        /\ \/ keys[id].expires_at = None
           \/ CreatedAtMinutes(keys[id].expires_at[1]) > now

\* a request arrives: withAuth starts with statusCode = 200, apiKey = null
Arrive(r, h) ==
    /\ req[r].pc \in {"idle", "done"}
    /\ arrivals < MaxArrivals
    /\ arrivals' = arrivals + 1
    /\ req' = [req EXCEPT ![r] = [IdleRequest EXCEPT !.pc = "auth",
                                    !.xApiKey = h.xApiKey,
                                    !.authorization = h.authorization]]
    /\ UNCHANGED <<clock, api_usage, logs, authenticated>>
    /\ UNCHANGED <<api_usage_stats, fetchVars, mlVars>>

\* withAuth returns (or throws): the finally clause runs and starts the
\* usage log without awaiting it
Return(r, rq, statusCode, outcome) ==
    LET sub == finallyLog(rq.apiKey, statusCode)
    IN  /\ req' = [req EXCEPT ![r] = [rq EXCEPT !.pc = "done",
                                        !.statusCode = statusCode,
                                        !.result = outcome.response,
                                        !.thrown = outcome.rethrown,
                                        !.submitted = sub]]
        /\ logs' = logs \o sub

Responds(response) == [response |-> Some(response), rethrown |-> None]

\* withAuth, first await: authenticateApiKey and the branch on its result
Authenticate(r, d) ==
    /\ req[r].pc = "auth"
    /\ LET auth == authenticateApiKey(req[r].xApiKey, req[r].authorization, d,
                                      api_keys, clock)
           named == NamedKeys(api_keys, req[r])
           rq == [req[r] EXCEPT !.storageOps = auth.storageOps,
                                !.authDb = d,
                                !.wasValid = IsValidKey(api_keys, req[r], clock),
                                !.trailing = IF named = {} THEN None
                                             ELSE Some(TrailingCount(api_usage,
                                                        CHOOSE id \in named : TRUE, clock))]
       IN  /\ IF ~auth.authenticated
              THEN LET statusCode == IF auth.statusCode = None
                                     THEN 401 ELSE auth.statusCode[1]
                   IN  /\ Return(r, rq, statusCode,
                                 Responds(createAuthenticationError(auth.error, statusCode)))
                       /\ UNCHANGED authenticated
              ELSE /\ req' = [req EXCEPT ![r] = [rq EXCEPT !.pc = "rate",
                                                           !.apiKey = auth.apiKey]]
                   /\ authenticated' = authenticated \cup {auth.apiKey[1].id}
                   /\ UNCHANGED logs
    /\ UNCHANGED <<clock, api_usage, arrivals>>
    /\ UNCHANGED <<api_usage_stats, fetchVars, mlVars>>

\* withAuth, second await: checkRateLimit and the 429 branch
CheckRateLimit(r, d) ==
    /\ req[r].pc = "rate"
    /\ LET apiKey == req[r].apiKey[1]
           rateLimit == checkRateLimit(apiKey, d, api_usage, clock)
           rq == [req[r] EXCEPT !.rateDb = d,
                                !.trailing = Some(TrailingCount(api_usage, apiKey.id, clock)),
                                !.served = ServedCount(api_usage, apiKey.id, clock)]
       IN  IF ~rateLimit.allowed
           THEN Return(r, rq, 429,
                       Responds(RateLimitResponse(apiKey, rateLimit.error[1])))
           ELSE /\ req' = [req EXCEPT ![r] = [rq EXCEPT !.pc = "handler"]]
                /\ UNCHANGED logs
    /\ UNCHANGED <<clock, api_usage, authenticated, arrivals>>
    /\ UNCHANGED <<api_usage_stats, fetchVars, mlVars>>

\* withAuth calls handler(request, context, { apiKey })
InvokeHandler(r) ==
    /\ req[r].pc = "handler"
    /\ req' = [req EXCEPT ![r].pc = "running", ![r].handlerCalls = @ + 1]
    /\ UNCHANGED <<clock, api_usage, logs, authenticated, arrivals>>
    /\ UNCHANGED <<api_usage_stats, fetchVars, mlVars>>

\* the handler resolves with a NextResponse: statusCode = response.status
HandlerReturns(r, status) ==
    /\ req[r].pc = "running"
    /\ Return(r, req[r], status,
              Responds([status |-> status,
                        body |-> [success |-> status < 400]]))
    /\ UNCHANGED <<clock, api_usage, authenticated, arrivals>>
    /\ UNCHANGED <<api_usage_stats, fetchVars, mlVars>>

\* the handler throws: the catch clause sets statusCode = 500
HandlerThrows(r, error) ==
    /\ req[r].pc = "running"
    /\ Return(r, [req[r] EXCEPT !.threw = TRUE], 500, withAuthCatch(error))
    /\ UNCHANGED <<clock, api_usage, authenticated, arrivals>>
    /\ UNCHANGED <<api_usage_stats, fetchVars, mlVars>>

\* (variant in which a failed log replaces the answers already given)
LogApiRequest_surfacesFailure(i, d) ==
    /\ i \in 1..Len(logs)
    /\ logs' = SubSeq(logs, 1, i - 1) \o SubSeq(logs, i + 1, Len(logs))
    /\ api_usage' = IF d = "ok"
                    THEN logApiUsage(api_usage, api_usage_stats, logs[i],
                                     clock, FALSE).api_usage
                    ELSE api_usage
    /\ req' = IF d = "ok"
              THEN req
              ELSE [r \in Slots |->
                      IF req[r].pc = "done"
                      THEN [req[r] EXCEPT !.result = Some(createAuthenticationError(
                                                            MsgUnavailable, 503))]
                      ELSE req[r]]
    /\ UNCHANGED <<clock, api_usage_stats, authenticated, arrivals>>
    /\ UNCHANGED <<fetchVars, mlVars>>

\* a started logApiRequest settles: getDatabase, then FPLDatabase.logApiUsage
\* inserts the api_usage row (created_at DEFAULT CURRENT_TIMESTAMP); a
\* failure of either is logged to the console and dropped
LogApiRequest(i, d) ==
    /\ i \in 1..Len(logs)
    /\ logs' = SubSeq(logs, 1, i - 1) \o SubSeq(logs, i + 1, Len(logs))
    /\ LET logged == IF d = "open_fail"
                     THEN [api_usage |-> api_usage,
                           api_usage_stats |-> api_usage_stats]
                     ELSE logApiUsage(api_usage, api_usage_stats, logs[i],
                                      clock, d = "query_err")
       IN  /\ api_usage' = logged.api_usage
           /\ api_usage_stats' = logged.api_usage_stats
    /\ UNCHANGED <<clock, req, authenticated, arrivals>>
    /\ UNCHANGED <<fetchVars, mlVars>>

\* time passes
Tick ==
    /\ clock + TickMin <= MaxClock
    /\ clock' = clock + TickMin
    /\ UNCHANGED <<gateVars, fetchVars, mlVars>>

Next ==
    \/ \E r \in Slots, h \in Headers : Arrive(r, h)
    \/ \E r \in Slots, d \in DbOutcomes : Authenticate(r, d)
    \/ \E r \in Slots, d \in DbOutcomes : CheckRateLimit(r, d)
    \/ \E r \in Slots : InvokeHandler(r)
    \/ \E r \in Slots, status \in HandlerStatuses : HandlerReturns(r, status)
    \/ \E r \in Slots, error \in HandlerErrors : HandlerThrows(r, error)
    \/ \E i \in 1..MaxArrivals, d \in DbOutcomes : LogApiRequest(i, d)
    \/ Tick

Spec == Init /\ [][Next]_vars

\* ------------------------------------------------- the sync orchestrator
\* the sync route calls fetcher.fetchAllData(): errors = [], allData = {},
\* then the first stage
FetchAllData ==
    /\ fetch.pc \in {"idle", "returned"}
    /\ syncs < MaxSyncs
    /\ syncs' = syncs + 1
    /\ fetch' = beginStage([IdleFetch EXCEPT !.clean = fetch.clean], 1)
    /\ UNCHANGED <<clock, gateVars, mlVars, upstream, teams, players, fixtures>>

\* makeRequest: axios.get answers 2xx; after delay(requestDelay) the body is
\* returned to the stage, which goes on with it
RequestSucceeds ==
    /\ fetch.pc = "makeRequest"
    /\ LET response == Payload(upstream, fetch.stage)
           f == [fetch EXCEPT !.attempts = @ + 1,
                              !.waits = Append(@, requestDelay),
                              !.response = Some(response)]
       IN  fetch' = CASE Stages[fetch.stage] = "bootstrap" ->
                            [f EXCEPT !.pc = "initialize"]
                      [] Stages[fetch.stage] = "fixtures" ->
                            [f EXCEPT !.pc = "insertFixtures"]
                      [] Stages[fetch.stage] = "currentGameweek" ->
                            beginStage([f EXCEPT !.allData.currentGameweek =
                                                    Some(fetchCurrentGameweek(response))],
                                       fetch.stage + 1)
    /\ UNCHANGED <<clock, gateVars, mlVars, upstream, teams, players, fixtures, syncs>>

\* makeRequest: axios.get fails (non-2xx, network error, 30 s timeout); the
\* catch clause retries after a delay or rethrows to the stage
RequestFails ==
    /\ fetch.pc = "makeRequest"
    /\ LET catch == makeRequestCatch(fetch.retries)
       IN  fetch' = IF catch.retry
                    THEN [fetch EXCEPT !.attempts = @ + 1,
                                       !.waits = Append(@, catch.delay),
                                       !.retries = @ + 1]
                    ELSE [fetch EXCEPT !.attempts = @ + 1, !.pc = "thrown"]
    /\ UNCHANGED <<clock, gateVars, mlVars, upstream, teams, players, fixtures, syncs>>

\* the error makeRequest rethrew passes through the stage's fetch method
\* into the stage's catch clause
StageCatch ==
    /\ fetch.pc = "thrown"
    /\ fetch' = failStage(fetch)
    /\ UNCHANGED <<clock, gateVars, mlVars, upstream, teams, players, fixtures, syncs>>

\* fetchBootstrapData: await this.db.initialize() (CREATE TABLE IF NOT
\* EXISTS ...), which rejects if a statement fails
Initialize(ok) ==
    /\ fetch.pc = "initialize"
    /\ fetch' = IF ok THEN [fetch EXCEPT !.pc = "insertTeams"] ELSE failStage(fetch)
    /\ UNCHANGED <<clock, gateVars, mlVars, upstream, teams, players, fixtures, syncs>>

\* fetchBootstrapData: await this.db.insertTeams(data.teams)
InsertTeams(failed) ==
    /\ fetch.pc = "insertTeams"
    /\ forEachResolves(fetch.response[1].teams)
    /\ teams' = insertTeams(teams, fetch.response[1].teams, failed, clock)
    /\ fetch' = [fetch EXCEPT !.pc = "insertPlayers",
                              !.clean = @ /\ failed = {}]
    /\ UNCHANGED <<clock, gateVars, mlVars, upstream, players, fixtures, syncs>>

\* fetchBootstrapData: await this.db.insertPlayers(data.elements), then the
\* stage's value is stored in allData.bootstrap
InsertPlayers(failed) ==
    /\ fetch.pc = "insertPlayers"
    /\ forEachResolves(fetch.response[1].elements)
    /\ players' = insertPlayers(players, fetch.response[1].elements, failed, clock)
    /\ fetch' = beginStage([fetch EXCEPT
                              !.clean = @ /\ failed = {},
                              !.allData.bootstrap =
                                  Some([teams |-> fetch.response[1].teams,
                                        players |-> fetch.response[1].elements,
                                        gameweeks |-> fetch.response[1].events])],
                           fetch.stage + 1)
    /\ UNCHANGED <<clock, gateVars, mlVars, upstream, teams, fixtures, syncs>>

\* fetchFixtures: await this.db.insertFixtures(fixtures), then the stage's
\* value is stored in allData.fixtures
InsertFixtures(failed) ==
    /\ fetch.pc = "insertFixtures"
    /\ forEachResolves(fetch.response[1])
    /\ fixtures' = insertFixtures(fixtures, fetch.response[1], failed, clock)
    /\ fetch' = beginStage([fetch EXCEPT !.clean = @ /\ failed = {},
                                         !.allData.fixtures = Some(fetch.response[1])],
                           fetch.stage + 1)
    /\ UNCHANGED <<clock, gateVars, mlVars, upstream, teams, players, syncs>>

\* fetchAllData returns { success, data, errors }
FetchAllDataReturns ==
    /\ fetch.pc = "finish"
    /\ fetch' = [fetch EXCEPT !.pc = "returned",
                              !.result = Some(fetchAllDataResult(fetch.errors,
                                                                 fetch.allData))]
    /\ UNCHANGED <<clock, gateVars, mlVars, upstream, teams, players, fixtures, syncs>>

\* syncHandler answers the request that started the sync
SyncHandlerResponds ==
    /\ fetch.pc = "returned" /\ fetch.answer = None
    /\ fetch' = [fetch EXCEPT !.answer = Some(syncHandler(fetch.result[1]))]
    /\ UNCHANGED <<clock, gateVars, mlVars, upstream, teams, players, fixtures, syncs>>

FetchInit ==
    /\ clock = StartClock
    /\ api_usage = <<>> /\ api_usage_stats = {}
    /\ req = [r \in Slots |-> IdleRequest]
    /\ logs = <<>> /\ authenticated = {} /\ arrivals = 0
    /\ upstream \in Upstreams
    /\ teams = {} /\ players = {} /\ fixtures = {}
    /\ fetch = IdleFetch
    /\ syncs = 0
    /\ training_history = <<>>
    /\ predictions = <<>>
    /\ ml = IdleML

\* a step of a running fetchAllData
FetchStep ==
    \/ RequestSucceeds
    \/ RequestFails
    \/ StageCatch
    \/ \E ok \in BOOLEAN : Initialize(ok)
    \/ \E failed \in SUBSET (1..2) : InsertTeams(failed)
    \/ \E failed \in SUBSET (1..1) : InsertPlayers(failed)
    \/ \E failed \in SUBSET (1..1) : InsertFixtures(failed)
    \/ FetchAllDataReturns
    \/ SyncHandlerResponds

FetchNext ==
    \/ FetchAllData
    \/ FetchStep
    \/ Tick

FetchSpec == FetchInit /\ [][FetchNext]_vars

\* every awaited operation of a running fetchAllData settles: an HTTP
\* attempt ends (axios timeout 30 s), a setTimeout fires, SQLite calls back
FairFetchSpec == FetchSpec /\ WF_vars(FetchStep)

\* ------------------------------------------------------ the ML pipeline
\* the state every ML specification starts from, over the stored data
MLInit(stored) ==
    /\ clock = StartClock
    /\ api_usage = <<>> /\ api_usage_stats = {}
    /\ req = [r \in Slots |-> IdleRequest]
    /\ logs = <<>> /\ authenticated = {} /\ arrivals = 0
    /\ upstream = NoUpstream
    /\ teams = stored.teams /\ players = stored.players
    /\ fixtures = stored.fixtures
    /\ fetch = IdleFetch
    /\ syncs = 0
    /\ training_history = <<>>
    /\ predictions = <<>>
    /\ ml = IdleML

\* team ids (3 is not stored) and gameweeks a caller may pass
TeamIds == {1, 2, 3}
Gameweeks == {1, 2, 3}

\* which lookups fail in one call: none, one of them, all of them
FailingSets == {{}, Lookups} \cup {{l} : l \in Lookups}

\* one call of FeatureEngineer.extractMatchFeatures in which the lookups
\* named by failing get a query error
ExtractMatchFeatures(homeTeamId, awayTeamId, gameweek, failing) ==
    /\ ml' = [op |-> "extractMatchFeatures",
              homeTeamId |-> homeTeamId, awayTeamId |-> awayTeamId,
              gameweek |-> gameweek, failing |-> failing, raised |-> FALSE,
              features |-> extractMatchFeatures(teams, players, fixtures, homeTeamId,
                                                awayTeamId, gameweek, failing)]
    /\ UNCHANGED <<clock, gateVars, fetchVars, training_history, predictions>>

FeatureInit == \E stored \in {StoredEmpty, StoredSmall} : MLInit(stored)
FeatureNext ==
    \E homeTeamId \in TeamIds, awayTeamId \in TeamIds, gameweek \in Gameweeks,
       failing \in FailingSets :
        ExtractMatchFeatures(homeTeamId, awayTeamId, gameweek, failing)
FeatureSpec == FeatureInit /\ [][FeatureNext]_vars

\* a history of n finished fixtures between teams 1 and 2, a finished
\* fixture of team 3 against team 1, and an upcoming fixture
StoredForm(n) ==
    [StoredHistory(n) EXCEPT
        !.fixtures = @ \cup {FixtureRow([FinishedFixture(1) EXCEPT
                                            !.id = 200, !.team_h = 3, !.team_a = 1,
                                            !.team_h_score = Some(2),
                                            !.team_a_score = Some(0)],
                                        StartClock)}]
HistoryLengths == 0..7
FormGameweeks == 1..9

\* one call of FeatureEngineer.calculateTeamForm(teamId, gameweek, 5)
CalculateTeamForm(teamId, currentGameweek, err) ==
    /\ ml' = [op |-> "calculateTeamForm", teamId |-> teamId,
              currentGameweek |-> currentGameweek, err |-> err,
              form |-> calculateTeamForm(fixtures, teamId, currentGameweek, 5, err)]
    /\ UNCHANGED <<clock, gateVars, fetchVars, training_history, predictions>>

FormInit == \E n \in HistoryLengths : MLInit(StoredForm(n))
FormNext ==
    \E teamId \in TeamIds, currentGameweek \in FormGameweeks, err \in BOOLEAN :
        CalculateTeamForm(teamId, currentGameweek, err)
FormSpec == FormInit /\ [][FormNext]_vars

\* a POST to the train endpoint arrives at the deployed version of the class
TrainRequest(draft) ==
    /\ ml = IdleML
    /\ Len(training_history) < MaxTrainingRuns
    /\ ml' = [op |-> "train", pc |-> "prepareTrainingData", draft |-> draft,
              before |-> training_history]
    /\ UNCHANGED <<clock, gateVars, fetchVars, training_history, predictions>>

\* the request's prepareTrainingData call, which only reads the tables:
\* queryErr says whether the finished-matches query fails, failing which
\* lookups of the feature extraction do, seed what Math.random returns
PrepareTrainingData(queryErr, failing, seed) ==
    /\ ml.op = "train" /\ ml.pc = "prepareTrainingData"
    /\ ml' = [op |-> "train", pc |-> "trainModel", draft |-> ml.draft,
              before |-> ml.before, failing |-> failing,
              matches |-> Len(getFinishedMatches(fixtures, queryErr)),
              dataset |-> prepareTrainingData(teams, players, fixtures, queryErr,
                                              failing, seed)]
    /\ UNCHANGED <<clock, gateVars, fetchVars, training_history, predictions>>

\* the rest of trainHandler and trainModel up to the response; fault is the
\* step that throws and history what model.fit reports
TrainResponds(fault, history) ==
    LET handled == trainHandler(ml.draft, fault, ml.dataset, history, training_history)
    IN  /\ ml.op = "train" /\ ml.pc = "trainModel"
        /\ training_history' = handled.training_history
        /\ ml' = [op |-> "train", pc |-> "responded", draft |-> ml.draft,
                  before |-> ml.before, failing |-> ml.failing,
                  matches |-> ml.matches, dataset |-> ml.dataset,
                  fault |-> fault, history |-> history,
                  raised |-> IF fault = "initialize" THEN Some(fault)
                             ELSE trainModel(ml.draft, fault, ml.dataset, history,
                                             training_history).raised,
                  response |-> handled.response]
        /\ UNCHANGED <<clock, gateVars, fetchVars, predictions>>

\* the request is over
TrainReturns ==
    /\ ml.op = "train" /\ ml.pc = "responded"
    /\ ml' = IdleML
    /\ UNCHANGED <<clock, gateVars, fetchVars, training_history, predictions>>

TrainInit == \E n \in MatchCounts : MLInit(StoredHistory(n))
TrainNext ==
    \/ \E draft \in Drafts : TrainRequest(draft)
    \/ \E queryErr \in BOOLEAN, failing \in {{}, Lookups}, seed \in {1, 2} :
          PrepareTrainingData(queryErr, failing, seed)
    \/ \E fault \in TrainFaults, history \in FitHistories : TrainResponds(fault, history)
    \/ TrainReturns
TrainSpec == TrainInit /\ [][TrainNext]_vars

\* one call of ProductionMLModel.predictMatch; loaded says whether the
\* object already holds a model
PredictMatch(draft, loaded, fault, probabilities) ==
    LET call == predictMatch(draft, loaded, fault, probabilities)
    IN  /\ ml = IdleML
        /\ ml' = [op |-> "predictMatch", draft |-> draft, loaded |-> loaded,
                  fault |-> fault, raised |-> call.raised, result |-> call.result]
        /\ UNCHANGED <<clock, gateVars, fetchVars, training_history, predictions>>

\* one POST to the generate endpoint: generateHandler with its
\* predictAllUpcomingMatches and both rounds of savePrediction
Generate(draft, faults, probabilities) ==
    LET handled == generateHandler(draft, faults, probabilities, teams, players,
                                   fixtures, predictions)
    IN  /\ ml = IdleML
        /\ Len(predictions) < MaxPredictionRows
        /\ predictions' = handled.rows
        /\ ml' = [op |-> "generate", draft |-> draft, faults |-> faults,
                  before |-> predictions, response |-> handled.response]
        /\ UNCHANGED <<clock, gateVars, fetchVars, training_history>>

\* the call or the request is over
PredictReturns ==
    /\ ml.op \in {"predictMatch", "generate"}
    /\ ml' = IdleML
    /\ UNCHANGED <<clock, gateVars, fetchVars, training_history, predictions>>

PredictInit == \E stored \in {StoredEmpty, StoredSmall} : MLInit(stored)
PredictNext ==
    \/ \E draft \in Drafts, loaded \in BOOLEAN, fault \in PredictFaults,
          probabilities \in Probabilities :
           PredictMatch(draft, loaded, fault, probabilities)
    \/ \E draft \in Drafts, faults \in GenerateFaults,
          probabilities \in Probabilities :
           Generate(draft, faults, probabilities)
    \/ PredictReturns
PredictSpec == PredictInit /\ [][PredictNext]_vars

\* ----------------------------------------------------------- properties
Done(r) == req[r].pc = "done"
Status(r) == req[r].result[1].status
Body(r) == req[r].result[1].body

\* the credential of the request in slot r, and the key row it names
Credential(r) == apiKeyHeader(req[r].xApiKey, req[r].authorization)
Named(r) == NamedKeys(api_keys, req[r])
Limit(r) == api_keys[CHOOSE id \in Named(r) : TRUE].rate_limit

\* the rate-limit check of the request in slot r has been made
RateChecked(r) == req[r].rateDb # ""

\* the credential is absent, empty, or does not begin with the four
\* characters f p l _
Malformed(r) ==
    \/ Credential(r) = None
    \/ Len(Credential(r)[1]) < 4
    \/ <<Credential(r)[1][1], Credential(r)[1][2], Credential(r)[1][3],
         Credential(r)[1][4]>> # <<"f", "p", "l", "_">>

\* C1 as stated: a request with an existing, active, unexpired key whose
\* count of usage events in the trailing hour is below its rate_limit passes
\* authentication and the rate-limit check, and its handler is invoked
\* exactly once.
C1_AsStated ==
    \A r \in Slots :
        /\ req[r].handlerCalls <= 1
        /\ (/\ Done(r)
            /\ req[r].wasValid
            /\ req[r].trailing # None
            /\ req[r].trailing[1] < Limit(r))
           => /\ req[r].handlerCalls = 1
              /\ Status(r) \notin {401, 403, 429, 503}

\* C1 as amended: the same, provided the key store could be opened and the
\* key lookup did not fail while the request was authenticated.
C1_ValidKeyBelowLimitReachesHandlerOnce ==
    \A r \in Slots :
        /\ req[r].handlerCalls <= 1
        /\ (/\ Done(r)
            /\ req[r].wasValid
            /\ req[r].authDb = "ok"
            /\ req[r].trailing # None
            /\ req[r].trailing[1] < Limit(r))
           => /\ req[r].handlerCalls = 1
              /\ RateChecked(r)
              /\ Status(r) \notin {401, 403, 429, 503}

\* C1 witness: a key with ceiling 2 and one event in the trailing hour was
\* authenticated, passed the rate-limit check and its handler answered 200
C1_Witness ==
    \E r \in Slots :
        /\ Done(r)
        /\ req[r].wasValid
        /\ req[r].authDb = "ok"
        /\ req[r].trailing = Some(1)
        /\ Limit(r) = 2
        /\ req[r].handlerCalls = 1
        /\ Status(r) = 200

\* C2: a request whose key has at least rate_limit usage events in the
\* trailing hour when the rate-limit check is made is answered 429 and its
\* handler is never invoked.  (Stated for checks whose counting query
\* worked: a failed count is allowed on purpose, see C6.)
C2_AtLimitRejected ==
    \A r \in Slots :
        (/\ RateChecked(r)
         /\ req[r].rateDb = "ok"
         /\ req[r].trailing[1] >= Limit(r))
        => /\ Done(r)
           /\ Status(r) = 429
           /\ req[r].handlerCalls = 0

\* C3: a request whose credential is missing or lacks the prefix fpl_ is
\* rejected with 401 (naming the required prefix when malformed) without
\* any storage operation having been made, and never reaches the handler.
C3_MalformedRejectedBeforeStorage ==
    \A r \in Slots :
        (req[r].pc \notin {"idle", "auth"} /\ Malformed(r))
        => /\ Done(r)
           /\ Status(r) = 401
           /\ req[r].storageOps = <<>>
           /\ req[r].handlerCalls = 0
           /\ Body(r).message = IF Falsy(Credential(r)) THEN MsgRequired ELSE MsgFormat

\* C3 witness: the credential "not-prefixed" was rejected naming the prefix
C3_Witness ==
    \E r \in Slots :
        /\ Done(r)
        /\ req[r].xApiKey = Some(not_prefixed)
        /\ Status(r) = 401
        /\ Body(r).message = MsgFormat
        /\ req[r].storageOps = <<>>

\* the key store was used while the request was authenticated and failed
AuthStorageFailed(r) ==
    /\ req[r].storageOps # <<>>
    /\ req[r].authDb \in {"open_fail", "query_err"}

\* C4: when the key store fails during the authentication lookup (open or
\* initialize fails, or the lookup query errors) the gate answers 503,
\* never 401.
C4_StorageFailureIs503 ==
    \A r \in Slots :
        (Done(r) /\ AuthStorageFailed(r)) => Status(r) = 503

\* C5: with the key store working, a well-formed credential naming no key
\* is rejected with 401, one naming an inactive key with 403, and the two
\* rejections differ in status and message.
C5_InactiveIs403 ==
    \A r \in Slots :
        (Done(r) /\ ~Malformed(r) /\ req[r].authDb = "ok")
        => /\ Named(r) = {} => Status(r) = 401
           /\ (\E id \in Named(r) : api_keys[id].is_active = 0)
                => /\ Status(r) = 403
                   /\ Body(r).message # MsgInvalid

\* C6: when the counting of usage events fails during the rate-limit check
\* (the database cannot be opened or the count query errors) the request is
\* allowed: its handler is dispatched, it is never answered 429, and a 5xx
\* answer can only come from the handler itself.
C6_CountFailureFailsOpen ==
    \A r \in Slots :
        (RateChecked(r) /\ req[r].rateDb \in {"open_fail", "query_err"})
        => /\ req[r].pc \in {"handler", "running", "done"}
           /\ Done(r) => /\ req[r].handlerCalls = 1
                         /\ Status(r) # 429
                         /\ Status(r) >= 500 => req[r].threw

\* C6 witness: a key already at its ceiling was let through to the handler
\* because the count query failed
C6_Witness ==
    \E r \in Slots :
        /\ Done(r)
        /\ req[r].rateDb = "query_err"
        /\ req[r].trailing[1] >= Limit(r)
        /\ req[r].handlerCalls = 1
        /\ Status(r) = 200

\* C7: the count that checkRateLimit obtains for a key (cutoff = the ISO
\* string of now - 60 minutes, compared with created_at) is exactly the
\* number of the key's usage events created in the 60 minutes before now.
C7_CountsTrailingHour ==
    \A id \in DOMAIN api_keys :
        getApiUsageSince(api_usage, id, toISOString(clock - WindowMin), FALSE)
            = TrailingCount(api_usage, id, clock)

\* C8: a key with ceiling L that has L successful calls recorded in the
\* trailing hour is answered 429 on its next call, and the body carries
\* rate_limit.remaining = 0.
C8_NextCallAfterLimitIs429 ==
    \A r \in Slots :
        (/\ RateChecked(r)
         /\ req[r].rateDb = "ok"
         /\ req[r].served >= Limit(r))
        => /\ Done(r)
           /\ Status(r) = 429
           /\ "remaining" \in DOMAIN Body(r).rate_limit
           /\ Body(r).rate_limit.remaining = 0

\* C9: a request that passed authentication hands exactly one usage event
\* to logApiRequest when it ends, carrying its key and the status of its
\* response; a request that failed authentication hands over none, nothing
\* is handed over before the request ends, and every pending or stored
\* usage event belongs to a key that has authenticated.
C9_OneUsageEventPerAuthenticatedRequest ==
    /\ \A r \in Slots :
          IF Done(r) /\ RateChecked(r)
          THEN /\ Len(req[r].submitted) = 1
               /\ req[r].submitted[1].statusCode = Status(r)
               /\ req[r].submitted[1].apiKeyId \in Named(r)
          ELSE req[r].submitted = <<>>
    /\ \A i \in 1..Len(logs) : logs[i].apiKeyId \in authenticated
    /\ \A i \in 1..Len(api_usage) : api_usage[i].api_key_id \in authenticated
    /\ Len(logs) + Len(api_usage) <= arrivals

\* C9 witness: the event of a served request has been stored, and a later
\* request of the same key, rejected with 429, has handed over its own
C9_Witness ==
    \E r \in Slots :
        /\ Done(r)
        /\ Status(r) = 429
        /\ req[r].submitted = <<[apiKeyId |-> 1, statusCode |-> 429]>>
        /\ \E i \in 1..Len(api_usage) :
              api_usage[i].api_key_id = 1 /\ api_usage[i].status_code \in {200, 404, 500}

\* C10: when the handler throws, the gate answers 500 with the same fixed
\* body whatever was thrown, and nothing is thrown out of the gate.
C10_HandlerExceptionIsGeneric500 ==
    \A r \in Slots :
        req[r].threw
        => /\ Done(r)
           /\ req[r].thrown = None
           /\ req[r].result = Some([status |-> 500,
                                    body |-> [success |-> FALSE,
                                              error |-> "Internal server error",
                                              message |-> "An unexpected error occurred"]])

\* C10 witness: a handler has thrown and the request was answered
C10_Witness ==
    \E r \in Slots :
        /\ req[r].threw
        /\ Done(r)
        /\ req[r].handlerCalls = 1
        /\ req[r].statusCode = 500

\* C11: usage logging is fire-and-forget.  The step in which a request
\* hands its usage event to logApiRequest is the step in which its response
\* is returned, and it persists nothing; the step in which a started log
\* settles, with or without success, leaves every request and its response
\* as they are; and nothing is ever thrown out of the gate.
C11_LoggingIsFireAndForget ==
    [][ /\ \A r \in Slots :
              (req[r].submitted = <<>> /\ req'[r].submitted # <<>>)
              => /\ req'[r].pc = "done"
                 /\ req'[r].result # None
                 /\ api_usage' = api_usage
        /\ Len(logs') < Len(logs) => req' = req
        /\ \A r \in Slots : req'[r].thrown = None ]_vars

\* C11 witness: a request was answered 200, its usage event was handed over
\* and the log has settled without a row being persisted
C11_Witness ==
    \E r \in Slots :
        /\ Done(r)
        /\ Status(r) = 200
        /\ req[r].submitted # <<>>
        /\ arrivals = 1
        /\ logs = <<>>
        /\ api_usage = <<>>

\* the number of usage events logged for a key on a date ("YYYY-MM-DD")
UsageEventsOn(apiKeyId, date) ==
    Cardinality({i \in 1..Len(api_usage) :
                    /\ api_usage[i].api_key_id = apiKeyId
                    /\ SubSeq(api_usage[i].created_at, 1, 10) = date})

\* C12: for every key and date with logged usage events there is exactly one
\* rollup row, its total_requests is the number of those events, and
\* successful_requests + failed_requests = total_requests.
C12_DailyRollupMatchesUsage ==
    \A i \in 1..Len(api_usage) :
        LET apiKeyId == api_usage[i].api_key_id
            date == SubSeq(api_usage[i].created_at, 1, 10)
            rows == {s \in api_usage_stats : s.api_key_id = apiKeyId /\ s.date = date}
        IN  /\ Cardinality(rows) = 1
            /\ \A s \in rows :
                  /\ s.total_requests = UsageEventsOn(apiKeyId, date)
                  /\ s.successful_requests + s.failed_requests = s.total_requests

\* the delays before retry 1 .. n: n x the base delay of one second
Backoff(n) == [k \in 1..n |-> 1000 * k]

\* C13: one makeRequest call makes at most 4 attempts; while it is retrying
\* it has made fewer than 4 and has waited k x 1000 ms before retry k; when
\* it throws it has made exactly 4 attempts and 3 retries; when it returns,
\* it returns the body of the attempt that succeeded, the first one that did.
C13_MakeRequestBoundedRetries ==
    /\ fetch.attempts <= 4
    /\ fetch.pc = "makeRequest"
       => /\ fetch.attempts < 4
          /\ fetch.waits = Backoff(fetch.attempts)
    /\ fetch.pc = "thrown"
       => /\ fetch.attempts = 4
          /\ fetch.waits = Backoff(3)
          /\ fetch.response = None
    /\ fetch.response # None
       => /\ fetch.attempts >= 1
          /\ SubSeq(fetch.waits, 1, fetch.attempts - 1) = Backoff(fetch.attempts - 1)
          /\ fetch.response[1] = Payload(upstream, Min(fetch.stage, Len(Stages)))

\* C13 witness: the 4th consecutive attempt has failed and the error was
\* raised to the caller
C13_Witness ==
    /\ fetch.pc = "thrown"
    /\ fetch.attempts = 4
    /\ fetch.waits = <<1000, 2000, 3000>>

\* the messages fetchAllData has to report for the stages whose value is
\* missing from the data it returns
NamedFailures(data) ==
    (IF data.bootstrap = None THEN <<"Bootstrap fetch failed">> ELSE <<>>)
    \o (IF data.fixtures = None THEN <<"Fixtures fetch failed">> ELSE <<>>)
    \o (IF data.currentGameweek = None THEN <<"Current GW fetch failed">> ELSE <<>>)

\* C14: every fetchAllData call that was started returns; when it has
\* returned, the three stages were attempted in the order roster snapshot,
\* fixtures, current gameweek, success is true exactly when no stage failed,
\* and errors holds exactly one named message per failed stage.
C14_AllStagesAttemptedAndReported ==
    /\ [](fetch.pc = "returned"
          => /\ fetch.attempted = <<"bootstrap", "fixtures", "currentGameweek">>
             /\ fetch.result[1].errors = NamedFailures(fetch.result[1].data)
             /\ fetch.result[1].success
                <=> NamedFailures(fetch.result[1].data) = <<>>)
    /\ (fetch.pc = "makeRequest") ~> (fetch.pc = "returned")

\* a row without its creation time
StoredFields(row) == [f \in DOMAIN row \ {"created_at"} |-> row[f]]
NoDuplicateIds(table) == \A x, y \in table : x.id = y.id => x = y

\* C15 as stated (for runs in which no stage and no row insert of the first
\* invocation failed): no step of a later invocation changes any of the
\* three tables.
C15_AsStated ==
    [][ (syncs >= 2 /\ fetch.clean)
        => /\ teams' = teams
           /\ players' = players
           /\ fixtures' = fixtures ]_vars

\* C15 as amended: after a first invocation in which no stage and no row
\* insert failed, a step of a later invocation leaves each table with the
\* same number of rows, one row per id, and every column other than
\* created_at as it was; created_at is rewritten by INSERT OR REPLACE.
C15_RerunKeepsRows ==
    [][ (syncs >= 2 /\ fetch.clean)
        => /\ Cardinality(teams') = Cardinality(teams)
           /\ Cardinality(players') = Cardinality(players)
           /\ Cardinality(fixtures') = Cardinality(fixtures)
           /\ NoDuplicateIds(teams') /\ NoDuplicateIds(players')
           /\ NoDuplicateIds(fixtures')
           /\ {StoredFields(x) : x \in teams'} = {StoredFields(x) : x \in teams}
           /\ {StoredFields(x) : x \in players'} = {StoredFields(x) : x \in players}
           /\ {StoredFields(x) : x \in fixtures'} = {StoredFields(x) : x \in fixtures} ]_vars

\* C15 witness: the second invocation has returned, nothing failed in either,
\* time has passed between them and all three tables hold rows
C15_Witness ==
    /\ syncs = 2
    /\ fetch.pc = "returned"
    /\ fetch.clean
    /\ Cardinality(teams) = 2 /\ players # {} /\ fixtures # {}
    /\ \E x \in teams : x.created_at # CURRENT_TIMESTAMP(StartClock)

\* C16: extractMatchFeatures returns exactly 20 numeric entries for every
\* (home team, away team, gameweek) and every stored data set, does not
\* raise, and when its lookups fail returns 20 entries all equal to 0.5
IsNumber(x) == x = Frac(x[1], x[2]) /\ x[1] >= 0
C16_TwentyNeutralOnFailure ==
    ml.op = "extractMatchFeatures" =>
        /\ ~ml.raised
        /\ Len(ml.features) = 20
        /\ \A i \in 1..20 : IsNumber(ml.features[i])
        /\ ml.failing = Lookups =>
               ml.features = [i \in 1..20 |-> Frac(1, 2)]

\* C17: with fewer than 100 finished matches the training set is filled
\* with synthetic samples to exactly 100, the real samples are kept in
\* front, every sample has 20 features and a one-hot label of 3, training
\* does not fail for insufficient data, and without a fault it succeeds
\* whatever the random numbers are (the samples are compared when
\* prepareTrainingData returns; the set is not changed afterwards)
OneHot == {<<1, 0, 0>>, <<0, 1, 0>>, <<0, 0, 1>>}
C17_SyntheticFillTo100 ==
    (ml.op = "train" /\ ml.pc \in {"trainModel", "responded"} /\ ml.matches < 100) =>
        /\ Len(ml.dataset) = 100
        /\ ml.pc = "trainModel" =>
               \A i \in 1..ml.matches :
                   ml.dataset[i] = realSample(teams, players, fixtures,
                                              getFinishedMatches(fixtures, FALSE)[i],
                                              ml.failing)
        /\ \A i \in 1..Len(ml.dataset) :
               /\ Len(ml.dataset[i].features) = 20
               /\ ml.dataset[i].label \in OneHot
        /\ ml.pc = "responded" =>
               /\ ml.raised # Some("Insufficient training data")
               /\ ml.fault = "none" => ml.response.body.success
C17_Witness ==
    /\ ml.op = "train" /\ ml.pc = "responded"
    /\ ml.matches = 40 /\ ml.draft = "lib"
    /\ ml.fault = "none" /\ ml.response.status = 200
    /\ Len(ml.dataset) = 100

\* C18: the train endpoint reports success only if the training_history
\* row was inserted: a failed history insert makes trainModel raise and
\* the endpoint answer 500 with success = false; a successful invocation
\* appends exactly one row and a failed one none
C18_SuccessIffRunRecorded ==
    (ml.op = "train" /\ ml.pc = "responded") =>
        /\ ml.response.body.success <=> ml.raised = None
        /\ ml.response.body.success =>
               /\ ml.response.status = 200
               /\ Len(training_history) = Len(ml.before) + 1
               /\ SubSeq(training_history, 1, Len(ml.before)) = ml.before
        /\ ~ml.response.body.success =>
               /\ ml.response.status = 500
               /\ training_history = ml.before
        /\ ml.fault = "saveHistory" => ml.raised # None
C18_Witness ==
    /\ ml.op = "train" /\ ml.pc = "responded" /\ ml.draft = "later" /\ ml.fault = "saveHistory"
    /\ ml.response.status = 500 /\ ~ml.response.body.success
    /\ training_history = ml.before

\* C19: every prediction produced (model output, fallback, or sample
\* written by the generate route) has confidence equal to the largest of
\* its three probabilities, and its label names an outcome with that
\* probability
LabelProbability(q) ==
    IF q.predicted_outcome = "Home Win" THEN q.home_win_prob
    ELSE IF q.predicted_outcome = "Draw" THEN q.draw_prob
    ELSE q.away_win_prob
ConfidenceIsMax(q) ==
    /\ q.predicted_outcome \in {"Home Win", "Draw", "Away Win"}
    /\ q.confidence = Max(Max(q.home_win_prob, q.draw_prob), q.away_win_prob)
    /\ LabelProbability(q) = q.confidence
C19_ConfidenceIsMaxProbability ==
    /\ (ml.op = "predictMatch" /\ ml.result # None) => ConfidenceIsMax(ml.result[1])
    /\ \A i \in 1..Len(predictions) : ConfidenceIsMax(predictions[i])
    /\ (ml.op = "generate" /\ ml.response.body.success) =>
           \A i \in 1..Len(ml.response.body.predictions) :
               ConfidenceIsMax(ml.response.body.predictions[i])
C19_Witness ==
    /\ ml.op = "generate"
    /\ \E i \in 1..Len(predictions) :
           /\ predictions[i].model_version = modelVersion
           /\ predictions[i].predicted_outcome = "Away Win"
           /\ predictions[i].confidence = 70

\* C20: predictMatch never propagates an error: on any internal failure
\* (model creation, feature extraction or forward pass) it returns the
\* fallback 0.45 / 0.25 / 0.30, Home Win, confidence 0.45, with the model
\* version
C20_PredictMatchNeverRaises ==
    ml.op = "predictMatch" =>
        /\ ~ml.raised
        /\ (ml.fault = "forward" \/ (ml.fault = "createModel" /\ ~ml.loaded)) =>
               ml.result = Some(fallbackPrediction)

\* the rows one generate request added to the predictions table, and the
\* fixtures they are for
NewPredictions == SubSeq(predictions, Len(ml.before) + 1, Len(predictions))
PersistedFixtures == {NewPredictions[i].fixture_id : i \in 1..Len(NewPredictions)}
Answered(field) == ml.op = "generate" /\ field \in DOMAIN ml.response.body

\* C21: in predictAllUpcomingMatches a predict or save failure for one
\* fixture does not keep the other upcoming fixtures from being predicted
\* and saved, and the number of predictions the generate route reports as
\* saved is the number of fixtures whose prediction row was persisted
C21_BatchContinuesAndSavedCountIsExact ==
    Answered("predictions_saved") =>
        /\ \A f \in fixtures :
               (/\ ~f.finished
                /\ ~ml.faults.createModel
                /\ f.id \notin ml.faults.modelSave
                /\ ml.draft = "lib" => f.id \notin ml.faults.forward)
               => f.id \in PersistedFixtures
        /\ ml.response.body.predictions_saved = Cardinality(PersistedFixtures)

\* C22: the generate route called while teams, players or fixtures are
\* empty answers success: true with predictions: [] and guidance that names
\* the sync as the next step, and persists no prediction
NamesSync(body) ==
    /\ "message" \in DOMAIN body
    /\ body.message = "Database appears to be empty. Run data sync before generating predictions."
C22_EmptyDataIsSuccessWithGuidance ==
    (/\ ml.op = "generate"
     /\ ~ml.faults.initialize
     /\ teams = {} \/ players = {} \/ fixtures = {})
    => /\ ml.response.body.success
       /\ Answered("predictions") /\ ml.response.body.predictions = <<>>
       /\ NamesSync(ml.response.body)
       /\ predictions = ml.before

\* C23: with data present but no training run recorded, the generate route
\* attempts no prediction and persists no prediction row; it answers
\* success-shaped with an empty prediction list
C23_NoPredictionBeforeTraining ==
    (/\ ml.op = "generate"
     /\ ~ml.faults.initialize
     /\ teams # {} /\ players # {} /\ fixtures # {}
     /\ training_history = <<>>)
    => /\ predictions = ml.before
       /\ ml.response.body.success
       /\ Answered("predictions") /\ ml.response.body.predictions = <<>>

\* C24: the team, player and fixture counts the sync route reports are the
\* numbers of rows that sync persisted, and a sync in which a row insert
\* failed is not reported as success with an empty errors list.  (Stated
\* for the first sync, whose rows are all the rows of the tables.)
C24_ReportedCountsArePersistedRows ==
    (fetch.answer # None /\ syncs = 1) =>
        LET body == fetch.answer[1].body
        IN  /\ body.data.teams = Cardinality(teams)
            /\ body.data.players = Cardinality(players)
            /\ body.data.fixtures = Cardinality(fixtures)
            /\ (body.success /\ body.errors = <<>>) =>
                   /\ Cardinality(teams) = Len(upstream.teams)
                   /\ Cardinality(players) = Len(upstream.elements)
                   /\ Cardinality(fixtures) = Len(upstream.fixtures)

\* C25: with at most NumSlots requests between their rate check and the
\* persistence of their usage event, a key with ceiling L gets at most
\* L + NumSlots - 1 handler dispatches within one trailing hour.  (Stated
\* for a request dispatched in the first hour after a count that worked:
\* the calls served before it, whose events were persisted when it was
\* checked, and its own dispatch all lie in that hour.)
C25_OvershootIsBounded ==
    \A r \in Slots :
        (/\ RateChecked(r)
         /\ req[r].rateDb = "ok"
         /\ req[r].handlerCalls = 1
         /\ clock - StartClock < WindowMin)
        => req[r].served + 1 <= Limit(r) + NumSlots - 1

\* C26: calculateTeamForm uses only finished fixtures the team played with
\* event below the gameweek, at most the 5 with the highest events, scores
\* 3/1/0 from the team's own side, divides points, goals for and goals
\* against by the number of matches used, and with none yields the default
\* form (the one its catch clause returns) rather than an error
Eligible(teamId, gameweek) ==
    {f \in fixtures : /\ f.team_h = teamId \/ f.team_a = teamId
                      /\ f.finished
                      /\ f.event < gameweek}
OwnGoals(f, teamId) ==
    IF f.team_h = teamId THEN f.team_h_score[1] ELSE f.team_a_score[1]
OtherGoals(f, teamId) ==
    IF f.team_h = teamId THEN f.team_a_score[1] ELSE f.team_h_score[1]
Points(f, teamId) ==
    IF OwnGoals(f, teamId) > OtherGoals(f, teamId) THEN 3
    ELSE IF OwnGoals(f, teamId) = OtherGoals(f, teamId) THEN 1 ELSE 0
RECURSIVE Total(_, _, _)
Total(used, F(_, _), teamId) ==
    IF used = {} THEN 0
    ELSE LET f == CHOOSE x \in used : TRUE
         IN  F(f, teamId) + Total(used \ {f}, F, teamId)
DefaultForm == [points |-> Frac(1, 1), goals_for |-> Frac(1, 1),
                goals_against |-> Frac(1, 1)]
FormOver(used, teamId) ==
    IF used = {}
    THEN DefaultForm
    ELSE [points |-> Frac(Total(used, Points, teamId), Cardinality(used)),
          goals_for |-> Frac(Total(used, OwnGoals, teamId), Cardinality(used)),
          goals_against |-> Frac(Total(used, OtherGoals, teamId), Cardinality(used))]
C26_FormOverLastFive ==
    (ml.op = "calculateTeamForm" /\ ~ml.err) =>
        \E used \in SUBSET Eligible(ml.teamId, ml.currentGameweek) :
            /\ Cardinality(used)
                   = Min(5, Cardinality(Eligible(ml.teamId, ml.currentGameweek)))
            /\ \A u \in used :
                   \A o \in Eligible(ml.teamId, ml.currentGameweek) \ used :
                       u.event >= o.event
            /\ ml.form = FormOver(used, ml.teamId)

\* C27: the accuracy, loss, validation accuracy and validation loss stored
\* in the training_history row are the final-epoch values model.fit
\* reported, also when a value is 0 or a validation metric is missing; no
\* substitute constant is recorded
C27_StoredMetricsAreFinalEpochValues ==
    (ml.op = "train" /\ ml.pc = "responded" /\ ml.response.body.success) =>
        LET row == training_history[Len(training_history)]
        IN  /\ row.accuracy = Some(ml.history.acc)
            /\ row.loss = Some(ml.history.loss)
            /\ row.val_accuracy = ml.history.val_acc
            /\ row.val_loss = ml.history.val_loss

\* C28: one generate request persists exactly one prediction row per
\* prediction it returns: the table grows by the number of predictions in
\* the response and never by two rows for the same fixture
C28_OneRowPerReturnedPrediction ==
    (Answered("predictions") /\ ml.response.body.success) =>
        /\ Len(NewPredictions) = Len(ml.response.body.predictions)
        /\ \A i, j \in 1..Len(NewPredictions) :
               NewPredictions[i].fixture_id = NewPredictions[j].fixture_id => i = j

\* C29: insertTeams, insertPlayers and insertFixtures eventually resolve
\* for every list, the empty one included, so a started sync returns
C29_InsertsResolve ==
    /\ (fetch.pc = "insertTeams") ~> (fetch.pc # "insertTeams")
    /\ (fetch.pc = "insertPlayers") ~> (fetch.pc # "insertPlayers")
    /\ (fetch.pc = "insertFixtures") ~> (fetch.pc # "insertFixtures")

\* C30: a request answered 429 hands a usage event of its own to the log,
\* and the rate-limit check counts every event of the key in the trailing
\* 60 minutes, rejected ones included: the request is rejected exactly when
\* that count has reached rate_limit, so a key at its ceiling stays rejected
\* and is allowed again only once the count has fallen below it
C30_RejectedRequestsCountToo ==
    \A r \in Slots :
        /\ (Done(r) /\ Status(r) = 429) =>
               req[r].submitted = <<[apiKeyId |-> req[r].apiKey[1].id,
                                     statusCode |-> 429]>>
        /\ (Done(r) /\ RateChecked(r) /\ req[r].rateDb = "ok") =>
               (Status(r) = 429 <=> req[r].trailing[1] >= Limit(r))

====
